---- MODULE Spec2Model ----
(***************************************************************************)
(* A model of the transcription task pipeline of bilalhzaidi/transcriptor  *)
(* (backend/app/services/transcription.py and its collaborators).          *)
(*                                                                         *)
(* The service runs on one asyncio event loop: a processing unit           *)
(* (_process_task) runs without interruption between two suspension       *)
(* points, the awaits of collaborator calls.  Every action below is the    *)
(* completion of one awaited call followed by all the code that runs up to *)
(* the next suspension point of the same coroutine.                        *)
(*                                                                         *)
(* Conventions: an Optional[X] is None (the empty tuple) or Some(x) (a     *)
(* one-element tuple); a text is a sequence of tokens in which " " is the  *)
(* whitespace token; a dict is a function whose domain is its key set;     *)
(* progress is in percent, confidences are in hundredths, times of cues    *)
(* are in milliseconds.                                                    *)
(***************************************************************************)
EXTENDS Integers, Sequences, FiniteSets, TLC

VARIABLES
    tasks,          \* self.tasks: task id -> TranscriptionTask
    model,          \* self.model: "none" or "loaded"
    model_loading,  \* self.model_loading
    clients,        \* translation_service.{openai_client, google_client}
    pc,             \* task id -> suspension point of its processing unit
    loc,            \* task id -> locals of its _process_task coroutine
    xlate,          \* task id -> log of translate_text calls made for it
    temp_files,     \* downloaded audio files present in the temp directory
    issued,         \* number of task ids handed out by uuid4 so far
    intake,         \* task id -> the request the HTTP intake made it from
    called,         \* the last translate_text call made by a caller other than a task
    answered,       \* the last answer of an intake endpoint
    parsed,         \* the last call of _process_subtitles made by itself
    now             \* hours elapsed on the clock read by datetime.utcnow()

vars == <<tasks, model, model_loading, clients, pc, loc, xlate, temp_files,
          issued, intake, called, answered, parsed, now>>

----------------------------------------------------------------------------
(* Bounds of the model. *)

MaxTasks == 2
MaxClock == 26

TaskIds == 1..MaxTasks

----------------------------------------------------------------------------
(* Optional values, dicts and texts. *)

None == <<>>
Some(x) == <<x>>

\* Python truthiness of an Optional[str]: neither None nor ''.
TruthyStr(o) == o # None /\ o[1] # ""

\* dict.get(key, default)
Get(d, k, default) == IF k \in DOMAIN d THEN d[k] ELSE default

\* `x or {}` for an Optional[dict]
OrEmpty(o) == IF o = None THEN <<>> ELSE o[1]

RECURSIVE LStrip(_)
LStrip(s) == IF s # <<>> /\ Head(s) = " " THEN LStrip(Tail(s)) ELSE s

RECURSIVE RStrip(_)
RStrip(s) ==
    IF s # <<>> /\ s[Len(s)] = " " THEN RStrip(SubSeq(s, 1, Len(s) - 1)) ELSE s

\* str.strip()
Strip(s) == RStrip(LStrip(s))

\* ' '.join(texts)
RECURSIVE JoinSpace(_)
JoinSpace(ts) ==
    IF ts = <<>> THEN <<>>
    ELSE IF Len(ts) = 1 THEN ts[1]
    ELSE ts[1] \o <<" ">> \o JoinSpace(Tail(ts))

\* [f(x) for x in xs if p(x)] helpers
RECURSIVE SelectSeqTexts(_)
SelectSeqTexts(segs) ==
    IF segs = <<>> THEN <<>>
    ELSE LET t == Get(Head(segs), "text", <<>>)
         IN  (IF Strip(t) # <<>> THEN <<t>> ELSE <<>>) \o SelectSeqTexts(Tail(segs))

----------------------------------------------------------------------------
(* TranslationService (services/translation.py). *)

OPENAI == "openai"
GOOGLE == "google"
AUTO == "auto"

\* str() of a member of the TranslationProvider enum.
ProviderStr(p) ==
    IF p = OPENAI THEN "TranslationProvider.OPENAI"
    ELSE IF p = GOOGLE THEN "TranslationProvider.GOOGLE"
    ELSE "TranslationProvider.AUTO"

\* _initialize_clients: the preferred provider follows from the clients that
\* could be initialised.
PreferredProvider(cl) ==
    IF cl.openai /\ cl.google THEN OPENAI
    ELSE IF cl.openai THEN OPENAI
    ELSE IF cl.google THEN GOOGLE
    ELSE AUTO

\* _calculate_openai_confidence, in hundredths.
OpenAIConfidence(finish_reason) ==
    IF finish_reason = "stop" THEN 95
    ELSE IF finish_reason = "length" THEN 80
    ELSE 70

\* The result of a provider call that returned, and the error result built by
\* translate_text's handler from a provider call that raised.
XlateOk(text, src, tgt, provider, confidence) ==
    [translated_text |-> text, source_language |-> src, target_language |-> tgt,
     provider |-> provider, confidence |-> confidence, error |-> None]

XlateError(text, src, tgt, chosen, msg) ==
    [translated_text |-> text, source_language |-> src, target_language |-> tgt,
     provider |-> ProviderStr(chosen), confidence |-> 0,
     error |-> Some(msg)]

\* _translate_with_openai / _translate_with_google: oa and gg are what the
\* provider's API call does when it is made: [ok, text, finish_reason, msg].
\* The value is [raised, result, msg].
TranslateWithOpenAI(text, src, tgt, oa) ==
    IF oa.ok
    THEN [raised |-> FALSE, msg |-> "",
          result |-> Some(XlateOk(Strip(oa.text), src, tgt, "openai",
                                  OpenAIConfidence(oa.finish_reason)))]
    ELSE [raised |-> TRUE, msg |-> oa.msg, result |-> None]

TranslateWithGoogle(text, src, tgt, gg) ==
    IF gg.ok
    THEN [raised |-> FALSE, msg |-> "",
          result |-> Some(XlateOk(gg.text, Get(gg, "detected", src), tgt,
                                  "google", 85))]
    ELSE [raised |-> TRUE, msg |-> gg.msg, result |-> None]

\* The provider branch of translate_text (the body of its try block).
ChosenBranch(text, src, tgt, chosen, cl, oa, gg) ==
    IF chosen = OPENAI /\ cl.openai THEN TranslateWithOpenAI(text, src, tgt, oa)
    ELSE IF chosen = GOOGLE /\ cl.google THEN TranslateWithGoogle(text, src, tgt, gg)
    ELSE IF chosen = AUTO THEN
        IF cl.openai THEN
            LET first == TranslateWithOpenAI(text, src, tgt, oa)
            IN  IF ~first.raised THEN first
                ELSE IF cl.google THEN TranslateWithGoogle(text, src, tgt, gg)
                ELSE first
        ELSE IF cl.google THEN TranslateWithGoogle(text, src, tgt, gg)
        ELSE [raised |-> TRUE, msg |-> "No translation providers available",
              result |-> None]
    ELSE [raised |-> TRUE, result |-> None,
          msg |-> "Translation provider " \o ProviderStr(chosen)
                  \o " not available"]

\* translate_text(text, source_language, target_language, provider).
\* provider is None or Some(p).
TranslateText(text, src, tgt, provider, cl, oa, gg) ==
    IF text = <<>> \/ Strip(text) = <<>> THEN
        [translated_text |-> text, source_language |-> src, target_language |-> tgt,
         provider |-> "none", confidence |-> 100, error |-> None]
    ELSE IF src = tgt THEN
        [translated_text |-> text, source_language |-> src, target_language |-> tgt,
         provider |-> "none", confidence |-> 100, error |-> None]
    ELSE
        LET chosen == IF provider # None THEN provider[1] ELSE PreferredProvider(cl)
            r == ChosenBranch(text, src, tgt, chosen, cl, oa, gg)
        IN  IF r.raised THEN XlateError(text, src, tgt, chosen, r.msg)
            ELSE r.result[1]

----------------------------------------------------------------------------
(* Subtitle parsing (_process_subtitles, _parse_timestamp).                 *)
(* A caption document is a sequence of lines.  A line written as           *)
(* `start --> end` is [ts |-> TRUE, start, end] with both times as they are *)
(* written: [hours, minutes, seconds, millis, mark], hours being None in    *)
(* the short form mm:ss.mmm and mark being the character before the         *)
(* milliseconds; any other line is [ts |-> FALSE, text] with its text.      *)

\* One side of timestamp_pattern, \d{2}:\d{2}:\d{2}\.\d{3}, on a written time.
MatchesPattern(t) == t.hours # None /\ t.mark = "."

\* re.match(timestamp_pattern, line)
TimestampMatch(line) ==
    line.ts /\ MatchesPattern(line.start) /\ MatchesPattern(line.end)

\* _parse_timestamp, in milliseconds: split(':') must give three parts and
\* float() must accept the last one, otherwise the except clause returns 0.0.
ParseTimestamp(t) ==
    IF t.hours = None \/ t.mark # "." THEN 0
    ELSE t.hours[1] * 3600000 + t.minutes * 60000 + t.seconds * 1000 + t.millis

\* line.strip(); the characters of a `start --> end` line are one token.
LineText(line) == IF line.ts THEN <<"start --> end">> ELSE Strip(line.text)

\* One iteration of the loop over the lines; st is [segments, current].
SubtitleLine(st, line) ==
    IF ~line.ts /\ (line.text = <<"WEBVTT">> \/ Strip(line.text) = <<>>) THEN st
    ELSE IF TimestampMatch(line) THEN
        [segments |-> IF st.current # None /\ st.current[1].text # <<>>
                      THEN Append(st.segments, st.current[1]) ELSE st.segments,
         current |-> Some([start |-> ParseTimestamp(line.start),
                           end |-> ParseTimestamp(line.end),
                           text |-> <<>>, confidence |-> 95])]
    ELSE IF st.current # None THEN
        [st EXCEPT !.current = Some([st.current[1] EXCEPT !.text =
            IF @ # <<>> THEN @ \o <<" ">> \o LineText(line)
            ELSE LineText(line)])]
    ELSE st

RECURSIVE SubtitleLines(_, _)
SubtitleLines(st, lines) ==
    IF lines = <<>> THEN st
    ELSE SubtitleLines(SubtitleLine(st, Head(lines)), Tail(lines))

RECURSIVE SegmentTexts(_)
SegmentTexts(segs) ==
    IF segs = <<>> THEN <<>> ELSE <<Head(segs).text>> \o SegmentTexts(Tail(segs))

\* _process_subtitles(subtitle_text, language)
ProcessSubtitles(doc, language) ==
    LET st == SubtitleLines([segments |-> <<>>, current |-> None], doc)
        segments == IF st.current # None /\ st.current[1].text # <<>>
                    THEN Append(st.segments, st.current[1]) ELSE st.segments
    IN  [text |-> JoinSpace(SegmentTexts(segments)), segments |-> segments,
         language |-> language]

----------------------------------------------------------------------------
(* TranscriptionTask (models/schemas.py) and the locals of _process_task.   *)

PENDING == "pending"
PROCESSING == "processing"
COMPLETED == "completed"
FAILED == "failed"

FILE == "file"
YOUTUBE == "youtube"
RECORDING == "recording"

\* TranscriptionTask(id, status=PENDING, source_type, target_language,
\* created_at) with the defaults of the schema for every other field.  The
\* metadata field is None unless the caller fills it in.
NewTask(source_type, target_language, metadata, created_at) ==
    [status |-> PENDING, progress |-> 0, source_type |-> source_type,
     target_language |-> target_language, source_language |-> None,
     transcript |-> None, segments |-> <<>>, is_translated |-> FALSE,
     metadata |-> metadata, created_at |-> created_at, completed_at |-> None,
     error_message |-> None, progress_writes |-> <<>>]

\* task.progress = v.  progress_writes is a history of the values assigned to
\* the field, in order; the program does not keep it.
SetProgress(tk, v) ==
    [tk EXCEPT !.progress = v, !.progress_writes = Append(@, v)]

\* The locals a suspended processing unit holds.
NoLocals ==
    [target_lang |-> "", branch |-> "", subtitle_result |-> None,
     file_path |-> None, result |-> None, i |-> 0, translated_segments |-> <<>>,
     transcribe_options |-> None]

\* A frame is what one uninterrupted run of the coroutine leaves behind: the
\* task's fields, the next suspension point, the locals, and the
\* translate_text calls it made without suspending.
Frame(tk, p, lc) == [task |-> tk, pc |-> p, loc |-> lc, calls |-> <<>>]

----------------------------------------------------------------------------
(* _process_task, from the last statement backwards.                        *)

\* A failure handler that leaves the progress where it was.
FailKeepsProgress(tk, lc, msg) ==
    Frame([tk EXCEPT !.status = FAILED, !.error_message = Some(msg)], "done", lc)

\* A failure handler that leaves the task Failed and starts its unit again.
FailRetry(tk, lc, msg) ==
    Frame(SetProgress([tk EXCEPT !.status = FAILED,
                                 !.error_message = Some(msg)], 0),
          "scheduled", lc)

\* A failure handler that puts the task back in line.
FailRequeue(tk, lc, msg) ==
    Frame(SetProgress([tk EXCEPT !.status = PENDING,
                                 !.error_message = Some(msg)], 0),
          "scheduled", lc)

\* The except clause of _process_task (lines 277-281).
Fail(tk, lc, msg) ==
    Frame(SetProgress([tk EXCEPT !.status = FAILED,
                                 !.error_message = Some(msg)], 0),
          "done", lc)

\* d.get(k) of a dict: None when the key is missing.
GetOpt(d, k) == IF k \in DOMAIN d THEN Some(d[k]) ELSE None

\* A completion that stamps completed_at and leaves the status as it is.
CompleteKeepsStatus(tk, lc, result, clock) ==
    Frame([SetProgress(tk, 100) EXCEPT !.completed_at = Some(clock)], "done", lc)

\* Lines 260-273: the final metadata replaces the task's metadata, then the
\* task is marked completed.
Complete(tk, lc, result, clock) ==
    LET md == Get(result, "metadata", <<>>)
        tk1 == [tk EXCEPT
                  !.metadata = Some([duration |-> GetOpt(md, "duration"),
                                     file_size |-> GetOpt(md, "file_size"),
                                     format_info |-> GetOpt(md, "format_info"),
                                     processing_time |-> None,
                                     model_used |-> "base",
                                     device_used |-> "cpu"]),
                  !.status = COMPLETED]
    IN  Frame([SetProgress(tk1, 100) EXCEPT !.completed_at = Some(clock)],
              "done", lc)

\* The head of the loop of _translate_segments (lines 436-441): segments whose
\* text is blank are appended as they are, up to the first one that is sent
\* to the translator.
RECURSIVE SkipBlank(_, _, _)
SkipBlank(segs, i, acc) ==
    IF i > Len(segs) THEN [i |-> i, acc |-> acc]
    ELSE IF Strip(Get(segs[i], "text", <<>>)) = <<>>
         THEN SkipBlank(segs, i + 1, Append(acc, segs[i]))
         ELSE [i |-> i, acc |-> acc]

\* A translation that stores the translated segments and leaves the
\* transcript as the source text.
TranslateSegmentsFromSourceText(tk, lc, i, acc, clock) ==
    LET segs == lc.result[1].segments
        s == SkipBlank(segs, i, acc)
    IN  IF s.i > Len(segs)
        THEN Complete([SetProgress(
                          [tk EXCEPT
                             !.transcript = Some(lc.result[1].text),
                             !.segments = s.acc], 95)
                         EXCEPT !.is_translated = TRUE],
                      [lc EXCEPT !.i = s.i, !.translated_segments = s.acc],
                      lc.result[1], clock)
        ELSE Frame(tk, "translate_segment",
                   [lc EXCEPT !.i = s.i, !.translated_segments = s.acc])

\* A loop that sends every segment to the translator, blank or not.
TranslateSegmentsFromEvery(tk, lc, i, acc, clock) ==
    LET segs == lc.result[1].segments
    IN  IF i > Len(segs)
        THEN Complete([SetProgress(
                          [tk EXCEPT
                             !.transcript = Some(JoinSpace(SelectSeqTexts(acc))),
                             !.segments = acc], 95)
                         EXCEPT !.is_translated = TRUE],
                      [lc EXCEPT !.i = i, !.translated_segments = acc],
                      lc.result[1], clock)
        ELSE Frame(tk, "translate_segment",
                   [lc EXCEPT !.i = i, !.translated_segments = acc])

\* _translate_segments from segment i on, and lines 236-239 and 250-251 once
\* the loop is over.
TranslateSegmentsFrom(tk, lc, i, acc, clock) ==
    LET segs == lc.result[1].segments
        s == SkipBlank(segs, i, acc)
    IN  IF s.i > Len(segs)
        THEN Complete([SetProgress(
                          [tk EXCEPT
                             !.transcript = Some(JoinSpace(SelectSeqTexts(s.acc))),
                             !.segments = s.acc], 95)
                         EXCEPT !.is_translated = TRUE],
                      [lc EXCEPT !.i = s.i, !.translated_segments = s.acc],
                      lc.result[1], clock)
        ELSE Frame(tk, "translate_segment",
                   [lc EXCEPT !.i = s.i, !.translated_segments = s.acc])

\* A need test that forgets 'auto'.
NeedsTranslationNoAuto(target_language, language) ==
    TruthyStr(target_language) /\ target_language[1] # language

\* Lines 217-221.
NeedsTranslation(target_language, language) ==
    /\ TruthyStr(target_language)
    /\ target_language[1] # language
    /\ target_language[1] # "auto"

\* A loop body that records translation_info whatever translate_text returned.
TranslatedSegmentAlwaysInfo(seg, r, src, tgt) ==
    ("text" :> r.translated_text)
    @@ ("original_text" :> Strip(Get(seg, "text", <<>>)))
    @@ ("translation_info" :>
           [service |-> r.provider, source_language |-> src,
            target_language |-> tgt, confidence |-> r.confidence])
    @@ seg

\* A loop body that scores the translated segment with the translator's
\* confidence.
TranslatedSegmentRescored(seg, r, src, tgt) ==
    LET text == Strip(Get(seg, "text", <<>>))
    IN  IF ~TruthyStr(r.error)
        THEN ("text" :> r.translated_text) @@ ("original_text" :> text)
             @@ ("confidence" :> r.confidence)
             @@ ("translation_info" :>
                    [service |-> r.provider, source_language |-> src,
                     target_language |-> tgt, confidence |-> r.confidence])
             @@ seg
        ELSE ("original_text" :> text) @@ seg

\* The body of the loop of _translate_segments after translate_text returned
\* r for segment seg (lines 451-467).
TranslatedSegment(seg, r, src, tgt) ==
    LET text == Strip(Get(seg, "text", <<>>))
    IN  IF ~TruthyStr(r.error)
        THEN ("text" :> r.translated_text) @@ ("original_text" :> text)
             @@ ("translation_info" :>
                    [service |-> r.provider, source_language |-> src,
                     target_language |-> tgt, confidence |-> r.confidence])
             @@ seg
        ELSE ("original_text" :> text) @@ seg

\* _translate_text after translate_text returned r (lines 415-420).
TranslatedText(text, r) == IF TruthyStr(r.error) THEN text ELSE r.translated_text

\* Lines 240-251 once the whole-text translation returned.
AfterTranslateText(tk, lc, r, clock) ==
    LET result == lc.result[1]
    IN  Complete([SetProgress(
                     [tk EXCEPT !.transcript = Some(TranslatedText(result.text, r))],
                     95)
                    EXCEPT !.is_translated = TRUE],
                 lc, result, clock)

\* A provider outcome for a translate_text call that reaches no provider.
NoCall == [ok |-> FALSE, msg |-> ""]

\* An entry of the log of translate_text calls: the segment the call was made
\* for (0 for the whole text), the text handed over and the result returned.
Call(index, text, r) == [index |-> index, text |-> text, result |-> r]

\* Lines 212-258, entered with the result of the transcription or of the
\* subtitle parsing.
AfterResult(tk, lc, result, cl, clock) ==
    LET tk1 == SetProgress([tk EXCEPT !.source_language = Some(result.language)],
                           70)
        lc1 == [lc EXCEPT !.result = Some(result)]
    IN  IF NeedsTranslation(tk.target_language, result.language) THEN
            LET tk2 == SetProgress(tk1, 75)
            IN  IF result.segments # <<>>
                THEN TranslateSegmentsFrom(tk2, lc1, 1, <<>>, clock)
                ELSE IF Strip(result.text) = <<>>
                THEN \* translate_text returns a blank text at once
                     LET r == TranslateText(result.text, result.language,
                                  tk.target_language[1], None, cl, NoCall, NoCall)
                     IN  [AfterTranslateText(tk2, lc1, r, clock) EXCEPT
                            !.calls = <<Call(0, result.text, r)>>]
                ELSE Frame(tk2, "translate_text", lc1)
        ELSE Complete(SetProgress([tk1 EXCEPT !.transcript = Some(result.text),
                                              !.segments = result.segments,
                                              !.is_translated = FALSE], 95),
                      lc1, result, clock)

\* _transcribe_audio, lines 373-388: the engine's raw output becomes the
\* result; preprocess_audio's metadata rides along.
EngineSegment(seg) ==
    [start |-> seg.start, end |-> seg.end, text |-> Strip(seg.text),
     confidence |-> seg.avg_logprob]

TranscriptionResult(raw, metadata) ==
    [text |-> Strip(raw.text), language |-> raw.language,
     segments |-> [k \in 1..Len(raw.segments) |-> EngineSegment(raw.segments[k])],
     metadata |-> metadata]

\* A language option that hands over every target language that is set.
LanguageHintAlways(target_language) ==
    IF TruthyStr(target_language) THEN target_language ELSE None

\* The language option handed to the engine (lines 366-368).
LanguageHint(target_language) ==
    IF TruthyStr(target_language) /\ Len(target_language[1]) = 2
    THEN target_language ELSE None

\* The engine decodes in the language it is given and reports that language;
\* without one it reports the language it detected.
ReportedLanguage(hint, detected) == IF hint # None THEN hint[1] ELSE detected

\* transcribe_options as _transcribe hands them to model.transcribe (lines
\* 360-371).
TranscribeOptions(target_language) ==
    LET hint == LanguageHint(target_language)
        options == [task |-> "transcribe", verbose |-> FALSE, word_timestamps |-> TRUE]
    IN  IF hint # None THEN ("language" :> hint[1]) @@ options ELSE options

\* preprocess_audio's metadata.
PreprocessMetadata ==
    [duration |-> "probed duration", file_size |-> "size on disk",
     original_path |-> "file_path", format_info |-> "format",
     preprocessing_applied |-> <<>>]

\* _transcribe_audio(audio_path, target_language) once preprocessing and the
\* engine are through, o being what they did; then lines 203-214.  The value
\* is a frame; removed says whether line 206 was reached.  The local
\* transcribe_options keeps what model.transcribe was called with.
AfterTranscribe(tk, lc0, o, mdl, cl, clock) ==
    LET lc == [lc0 EXCEPT !.transcribe_options =
                  Some(TranscribeOptions(tk.target_language))]
    IN  IF o.kind = "preprocess_error"
        THEN Fail(tk, lc0, "Audio preprocessing failed: " \o o.msg)
        ELSE IF mdl = "none"
        THEN Fail(tk, lc0, "'NoneType' object has no attribute 'transcribe'")
        ELSE IF o.kind = "engine_error"
        THEN Fail(tk, lc, o.msg)
        ELSE LET raw == [o.raw EXCEPT !.language =
                            ReportedLanguage(LanguageHint(tk.target_language), @)]
             IN  AfterResult(tk, lc, TranscriptionResult(raw, PreprocessMetadata),
                             cl, clock)

Transcribed(o, mdl) == o.kind = "ok" /\ mdl # "none"

----------------------------------------------------------------------------
(* _process_youtube_video and lines 159-206 of _process_task.               *)

\* a or b or 'en' over Optional[str]
OrStr(a, b, c) == IF TruthyStr(a) THEN a[1] ELSE IF TruthyStr(b) THEN b[1] ELSE c

\* Line 164, for a result {'success': False, 'error': error}.
YouTubeFailed(tk, lc, error) ==
    Fail(tk, lc, "YouTube processing failed: " \o error)

\* An acquisition that hands over to the transcription before anything was
\* downloaded.
AfterValidateNoDownload(tk, lc, v) ==
    IF ~v.valid THEN YouTubeFailed(tk, lc, "Invalid YouTube URL: " \o v.error)
    ELSE Frame(tk, "transcribe", lc)

\* An acquisition that looks for subtitles whatever the caller asked for.
AfterValidateAlwaysMetadata(tk, lc, v) ==
    IF ~v.valid THEN YouTubeFailed(tk, lc, "Invalid YouTube URL: " \o v.error)
    ELSE Frame(tk, "get_video_metadata", lc)

\* validate_youtube_url returned v (lines 486-497).
AfterValidate(tk, lc, v) ==
    IF ~v.valid THEN YouTubeFailed(tk, lc, "Invalid YouTube URL: " \o v.error)
    ELSE IF Get(OrEmpty(tk.metadata), "use_subtitles", FALSE)
    THEN Frame(tk, "get_video_metadata", lc)
    ELSE Frame(tk, "download_audio", lc)

\* A policy that takes the automatic captions whenever there are some.
AfterMetadataAutoFirst(tk, lc, m) ==
    LET md == OrEmpty(tk.metadata)
        target_lang == OrStr(Get(md, "subtitle_language", None),
                             Get(md, "target_language", None), "en")
    IN  IF ~m.success THEN Frame(tk, "download_audio", lc)
        ELSE IF target_lang \in m.automatic_captions
        THEN Frame(tk, "extract_subtitles",
                   [lc EXCEPT !.target_lang = target_lang, !.branch = "automatic"])
        ELSE IF target_lang \in m.subtitles
        THEN Frame(tk, "extract_subtitles",
                   [lc EXCEPT !.target_lang = target_lang, !.branch = "manual"])
        ELSE Frame(tk, "download_audio", [lc EXCEPT !.target_lang = target_lang])

\* get_video_metadata returned m (lines 501-569).
AfterMetadata(tk, lc, m) ==
    LET md == OrEmpty(tk.metadata)
        target_lang == OrStr(Get(md, "subtitle_language", None),
                             Get(md, "target_language", None), "en")
        prefer_manual == Get(md, "prefer_manual_subtitles", TRUE)
        has_manual == target_lang \in m.subtitles
        has_auto == target_lang \in m.automatic_captions
    IN  IF ~m.success THEN Frame(tk, "download_audio", lc)
        ELSE IF (has_manual /\ prefer_manual) \/ (has_manual /\ ~has_auto)
        THEN Frame(tk, "extract_subtitles",
                   [lc EXCEPT !.target_lang = target_lang, !.branch = "manual"])
        ELSE IF has_auto
        THEN Frame(tk, "extract_subtitles",
                   [lc EXCEPT !.target_lang = target_lang, !.branch = "automatic"])
        ELSE Frame(tk, "download_audio", [lc EXCEPT !.target_lang = target_lang])

\* The 'metadata' entry of a subtitle result and of an audio result.
SubtitleMetadata ==
    [youtube_title |-> "title", youtube_video_id |-> "video_id",
     duration |-> "video duration", original_url |-> "url",
     uploader |-> "uploader", from_subtitles |-> TRUE]

AudioMetadata ==
    [youtube_title |-> "title", youtube_video_id |-> "video_id",
     duration |-> "video duration", file_size |-> "size on disk",
     format |-> "mp3", original_url |-> "url", uploader |-> "uploader",
     upload_date |-> "upload_date", view_count |-> "view_count",
     from_subtitles |-> FALSE]

\* extract_subtitles returned e (lines 520-565), then lines 163-199 and
\* 212-258 of _process_task.  When the extraction failed or came back empty,
\* use_subtitles is still true, the audio block is skipped and the function
\* ends without a return statement: youtube_result is None and line 163
\* raises TypeError.
AfterExtract(tk, lc0, e, cl, clock) ==
    LET lc == [lc0 EXCEPT !.subtitle_result = Some(e)] IN
    IF e.success /\ e.subtitles # <<>> THEN
        LET sub == ProcessSubtitles(e.subtitles, lc.target_lang)
            tk0 == SetProgress([tk EXCEPT !.metadata = Some(SubtitleMetadata)], 40)
            tk1 == SetProgress(
                      [tk0 EXCEPT
                         !.transcript = Some(sub.text),
                         !.segments = sub.segments,
                         !.source_language = Some(lc.target_lang),
                         !.metadata = Some(("subtitle_source" :> lc.branch)
                                           @@ SubtitleMetadata)], 70)
            result == [text |-> sub.text, language |-> lc.target_lang,
                       segments |-> sub.segments,
                       metadata |-> [from_subtitles |-> TRUE,
                                     subtitle_source |-> lc.branch]]
        IN  AfterResult(tk1, lc, result, cl, clock)
    ELSE Fail(tk, lc, "'NoneType' object is not subscriptable")

\* download_audio returned d (lines 576-598), then lines 163-203.
AfterDownload(tk, lc, d, path) ==
    IF ~d.success
    THEN YouTubeFailed(tk, lc, "Failed to download audio: " \o d.error)
    ELSE Frame(SetProgress([tk EXCEPT !.metadata = Some(AudioMetadata)], 40),
               "transcribe", [lc EXCEPT !.file_path = Some(path)])

\* An engine-ready checkpoint below the one written at the start.
AfterLoadModelLow(tk, lc) ==
    LET tk1 == SetProgress(tk, 2)
    IN  IF tk.source_type = YOUTUBE THEN Frame(tk1, "validate_youtube_url", lc)
        ELSE Frame(tk1, "transcribe", lc)

\* Lines 156-210: the model is there (or load_model returned without one),
\* and the unit goes on to the first call of its source type.
AfterLoadModel(tk, lc) ==
    LET tk1 == SetProgress(tk, 20)
    IN  IF tk.source_type = YOUTUBE THEN Frame(tk1, "validate_youtube_url", lc)
        ELSE Frame(tk1, "transcribe", lc)

----------------------------------------------------------------------------
(* What the collaborators may do.                                           *)

MaxSegments == 2

\* str(e) of an exception raised by a collaborator.
Messages == {"", "connection reset"}

\* Texts the engine may put in a segment, before stripping.
RawTexts == {<<" ", "bonjour">>, <<" ">>}

RECURSIVE SeqsUpTo(_, _)
SeqsUpTo(S, n) ==
    IF n = 0 THEN {<<>>}
    ELSE LET shorter == SeqsUpTo(S, n - 1)
         IN  shorter \cup {Append(q, x) : q \in {r \in shorter : Len(r) = n - 1}, x \in S}

RawSegment(k, text) ==
    [start |-> (k - 1) * 2000, end |-> k * 2000, text |-> text, avg_logprob |-> -30]

RECURSIVE RawText(_)
RawText(texts) == IF texts = <<>> THEN <<>> ELSE Head(texts) \o RawText(Tail(texts))

\* The engine's output for an audio: segments of at most MaxSegments texts, the
\* text being their concatenation, or a text alone with no segment.
RawOutputs ==
    {[text |-> RawText(texts), language |-> lang,
      segments |-> [k \in 1..Len(texts) |-> RawSegment(k, texts[k])]] :
        texts \in SeqsUpTo(RawTexts, MaxSegments), lang \in {"fr"}}
    \cup {[text |-> <<" ", "bonjour">>, language |-> "fr", segments |-> <<>>]}

TranscribeOutcomes ==
    {[kind |-> "preprocess_error", msg |-> m] : m \in Messages}
    \cup {[kind |-> "engine_error", msg |-> m] : m \in Messages}
    \cup {[kind |-> "ok", raw |-> r] : r \in RawOutputs}

LoadOutcomes == {[ok |-> TRUE]} \cup {[ok |-> FALSE, msg |-> m] : m \in Messages}

OpenAIOutcomes ==
    {[ok |-> TRUE, text |-> <<"hello", " ">>, finish_reason |-> "stop"],
     [ok |-> FALSE, msg |-> "rate limit"], [ok |-> FALSE, msg |-> ""]}

GoogleOutcomes ==
    {[ok |-> TRUE, text |-> <<"hello">>], [ok |-> FALSE, msg |-> "quota"]}

ClientConfigs == [openai : BOOLEAN, google : BOOLEAN]

ValidateOutcomes ==
    {[valid |-> TRUE]} \cup {[valid |-> FALSE, error |-> m] : m \in Messages}

MetadataOutcomes ==
    {[success |-> FALSE, error |-> "unavailable"]}
    \cup [success : {TRUE}, subtitles : SUBSET {"en", "es"},
          automatic_captions : SUBSET {"en", "es"}]

Ts(s) == [hours |-> Some(0), minutes |-> 0, seconds |-> s, millis |-> 0, mark |-> "."]
Cue(a, b) == [ts |-> TRUE, start |-> Ts(a), end |-> Ts(b)]
Line(text) == [ts |-> FALSE, text |-> text]

SubtitleDocs ==
    {<<>>,
     <<Line(<<"WEBVTT">>), Line(<<>>)>>,
     <<Line(<<"WEBVTT">>), Line(<<>>), Cue(0, 2), Line(<<"hello", " ", "world">>),
       Line(<<>>), Cue(2, 4), Line(<<"this", " ", "is">>), Line(<<"a", " ", "test">>)>>}

ExtractOutcomes ==
    {[success |-> FALSE, error |-> "no subtitles"]}
    \cup {[success |-> TRUE, subtitles |-> d] : d \in SubtitleDocs}

DownloadOutcomes ==
    {[success |-> TRUE]} \cup {[success |-> FALSE, error |-> m] : m \in Messages}

\* What a caller may ask for.
TargetLanguages == {None, Some(""), Some("auto"), Some("en"), Some("fr"), Some("haw")}

SubtitlePreferences ==
    {None,
     Some([use_subtitles |-> FALSE]),
     Some([use_subtitles |-> TRUE]),
     Some([use_subtitles |-> TRUE, prefer_manual_subtitles |-> FALSE]),
     Some([use_subtitles |-> TRUE, subtitle_language |-> Some("es")]),
     Some([use_subtitles |-> TRUE, prefer_manual_subtitles |-> FALSE,
           subtitle_language |-> None, target_language |-> Some("es")])}

\* What a video offers: the languages of its manual subtitles and of its
\* automatic captions.
Videos ==
    {[subtitles |-> {}, automatic_captions |-> {}],
     [subtitles |-> {"en"}, automatic_captions |-> {"en"}]}

\* A YouTubeRequest; url stands for the video it points to.
YouTubeRequests ==
    [url : Videos, target_language : {None, Some("en"), Some("haw")},
     use_subtitles : BOOLEAN, prefer_manual_subtitles : BOOLEAN,
     subtitle_language : {None}]

\* settings.YOUTUBE_MAX_DURATION, in seconds, and settings.MAX_FILE_SIZE, in
\* megabytes.
YOUTUBE_MAX_DURATION == 3600
MAX_FILE_SIZE == 500

\* settings.MAX_CONCURRENT_TASKS, a value the environment sets (5 when it
\* sets nothing); it is 1 here so that MaxTasks tasks are more than it allows.
MAX_CONCURRENT_TASKS == 1

SupportedFormats ==
    {"mp3", "wav", "m4a", "flac", "aac", "ogg", "wma",
     "mp4", "avi", "mov", "mkv", "wmv", "flv", "webm"}

\* What a URL leads to: it is not a YouTube URL, the fetch of the video's
\* info raises, or the info comes back.
Links ==
    {[well_formed |-> FALSE],
     [well_formed |-> TRUE, fetched |-> FALSE, error |-> "connection reset"]}
    \cup [well_formed : {TRUE}, fetched : {TRUE},
          duration : {YOUTUBE_MAX_DURATION, YOUTUBE_MAX_DURATION + 1},
          availability : {"public", "private"}]

SmallLinks ==
    {[well_formed |-> FALSE],
     [well_formed |-> TRUE, fetched |-> TRUE, duration |-> YOUTUBE_MAX_DURATION,
      availability |-> "public"]}

\* validate_youtube_url(url).
ValidateYoutubeUrl(link) ==
    IF ~link.well_formed THEN [valid |-> FALSE, error |-> "Invalid YouTube URL format"]
    ELSE IF ~link.fetched THEN [valid |-> FALSE, error |-> link.error]
    ELSE IF link.duration > YOUTUBE_MAX_DURATION
    THEN [valid |-> FALSE, error |-> "Video duration exceeds maximum allowed"]
    ELSE IF link.availability \notin {"public", "unlisted"}
    THEN [valid |-> FALSE, error |-> "Video is not publicly available"]
    ELSE [valid |-> TRUE, title |-> "title", duration |-> link.duration]

\* An uploaded file: content type, extension of its name, size in megabytes,
\* and whether writing it to the temp directory works.
Upload(content_type, extension, size, saved) ==
    [content_type |-> content_type, extension |-> extension, size |-> size,
     saved |-> saved]

Uploads ==
    {Upload(Some("audio/mpeg"), "mp3", MAX_FILE_SIZE, TRUE),
     Upload(None, "mp3", MAX_FILE_SIZE, TRUE),
     Upload(Some("application/octet-stream"), "exe", MAX_FILE_SIZE, TRUE),
     Upload(Some("audio/mpeg"), "mp3", MAX_FILE_SIZE + 1, TRUE),
     Upload(Some("audio/mpeg"), "mp3", MAX_FILE_SIZE, FALSE)}

\* The submissions made to the intake when only the intake is looked at.
IntakeRequests ==
    {rq \in YouTubeRequests : rq.target_language = None /\ rq.prefer_manual_subtitles}
IntakeLanguages == {None, Some("haw")}

----------------------------------------------------------------------------
(* The service: task creation, the processing unit, housekeeping, queries.  *)

InitService(configs) ==
    /\ tasks = <<>>
    /\ model = "none"
    /\ model_loading = FALSE
    /\ clients \in configs
    /\ pc = [t \in TaskIds |-> "unborn"]
    /\ loc = [t \in TaskIds |-> NoLocals]
    /\ xlate = [t \in TaskIds |-> <<>>]
    /\ temp_files = {}
    /\ issued = 0
    /\ intake = [t \in TaskIds |-> None]
    /\ called = None
    /\ answered = None
    /\ now = 0

\* The state after construction, no call of _process_subtitles pending.
InitWith(configs) == InitService(configs) /\ parsed = None

\* A unit that writes its progress to every task of the registry.
ResumeShared(t, frame) ==
    \E f \in {frame} :
        /\ tasks' = [u \in DOMAIN tasks |->
                        IF u = t THEN f.task
                        ELSE [tasks[u] EXCEPT !.progress = f.task.progress]]
        /\ pc' = [pc EXCEPT ![t] = f.pc]
        /\ loc' = [loc EXCEPT ![t] = f.loc]
        /\ xlate' = [xlate EXCEPT ![t] = @ \o f.calls]

\* The coroutine of task t ran up to its next suspension point.
Resume(t, frame) ==
    \E f \in {frame} :
        /\ tasks' = [tasks EXCEPT ![t] = f.task]
        /\ pc' = [pc EXCEPT ![t] = f.pc]
        /\ loc' = [loc EXCEPT ![t] = f.loc]
        /\ xlate' = [xlate EXCEPT ![t] = @ \o f.calls]

\* The body of create_task: a fresh id, the task in the registry, its
\* processing unit scheduled.
Register(limit, source_type, target_language, metadata) ==
    /\ issued < limit
    /\ issued' = issued + 1
    /\ tasks' = ((issued + 1) :> NewTask(source_type, target_language, metadata, now))
                @@ tasks
    /\ pc' = [pc EXCEPT ![issued + 1] = "scheduled"]
    /\ UNCHANGED <<model, model_loading, clients, loc, xlate, temp_files, now,
                   called, parsed>>

\* create_task called on the service.  create_task itself leaves metadata
\* None; a caller that holds the task object may fill it in before the unit's
\* first step.
CreateTask(limit, source_type, target_language, metadata) ==
    /\ Register(limit, source_type, target_language, metadata)
    /\ UNCHANGED <<intake, answered, parsed>>

\* An intake endpoint raises an HTTPException: the caller gets the answer and
\* nothing else happens.
Reject(answer) ==
    /\ answered' = Some(answer)
    /\ UNCHANGED <<tasks, model, model_loading, clients, pc, loc, xlate,
                   temp_files, issued, intake, called, parsed, now>>

\* The TaskResponse of an intake endpoint.
TaskResponse(task_id) ==
    [status_code |-> 200, task_id |-> task_id, status |-> PENDING]

\* An intake that validates nothing before it creates the task.
ProcessYoutubeUnchecked(limit, request, v) ==
    /\ Register(limit, YOUTUBE, request.target_language, None)
    /\ intake' = [intake EXCEPT ![issued + 1] = Some(request)]
    /\ answered' = Some(TaskResponse(issued + 1))

\* POST /youtube: the URL is validated (v), then create_task is called with
\* the URL, the source type, the user and the target language of the request.
ProcessYoutube(limit, request, v) ==
    IF ~v.valid
    THEN Reject([status_code |-> 400, code |-> "INVALID_YOUTUBE_URL",
                 message |-> "YouTube URL validation failed: " \o v.error])
    ELSE /\ Register(limit, YOUTUBE, request.target_language, None)
         /\ intake' = [intake EXCEPT ![issued + 1] = Some(request)]
         /\ answered' = Some(TaskResponse(issued + 1))

\* POST /upload: the checks of lines 28-60, the file saved, then create_task.
UploadFile(limit, file, target_language) ==
    IF ~TruthyStr(file.content_type)
    THEN Reject([status_code |-> 400, code |-> "",
                 message |-> "File type could not be determined"])
    ELSE IF file.extension \notin SupportedFormats
    THEN Reject([status_code |-> 400, code |-> "INVALID_FILE_FORMAT",
                 message |-> "Unsupported file format: " \o file.extension])
    ELSE IF file.size > MAX_FILE_SIZE
    THEN Reject([status_code |-> 413, code |-> "FILE_TOO_LARGE",
                 message |-> "File size exceeds limit of 500MB"])
    ELSE IF ~file.saved
    THEN Reject([status_code |-> 500, code |-> "", message |-> "File upload failed"])
    ELSE /\ Register(limit, FILE, target_language, None)
         /\ answered' = Some(TaskResponse(issued + 1))
         /\ UNCHANGED intake

\* A first step whose load_model starts a load whenever there is no model,
\* also while a load is in flight.
BeginLoadsAgain(t) ==
    /\ pc[t] = "scheduled"
    /\ IF t \notin DOMAIN tasks
       THEN /\ pc' = [pc EXCEPT ![t] = "done"]
            /\ UNCHANGED <<tasks, loc, xlate, model_loading>>
       ELSE LET tk == SetProgress([tasks[t] EXCEPT !.status = PROCESSING], 10)
            IN  IF model # "none"
                THEN Resume(t, AfterLoadModel(tk, loc[t])) /\ UNCHANGED model_loading
                ELSE Resume(t, Frame(tk, "load_model", loc[t]))
                     /\ model_loading' = TRUE
    /\ UNCHANGED <<model, clients, temp_files, issued, now, intake, called,
                   answered, parsed>>

\* _process_task up to its first suspension point, inside load_model or past it.
Begin(t) ==
    /\ pc[t] = "scheduled"
    /\ IF t \notin DOMAIN tasks
       THEN /\ pc' = [pc EXCEPT ![t] = "done"]
            /\ UNCHANGED <<tasks, loc, xlate, model_loading>>
       ELSE LET tk == SetProgress([tasks[t] EXCEPT !.status = PROCESSING], 10)
            IN  IF model # "none"
                THEN Resume(t, AfterLoadModel(tk, loc[t])) /\ UNCHANGED model_loading
                ELSE IF model_loading
                THEN Resume(t, Frame(tk, "wait_model", loc[t]))
                     /\ UNCHANGED model_loading
                ELSE Resume(t, Frame(tk, "load_model", loc[t]))
                     /\ model_loading' = TRUE
    /\ UNCHANGED <<model, clients, temp_files, issued, now, intake, called,
                   answered, parsed>>

\* load_model, lines 65-77: the executor is through with _load_model_sync.
LoadModelDone(t, o) ==
    /\ pc[t] = "load_model"
    /\ model_loading' = FALSE
    /\ IF o.ok
       THEN model' = "loaded" /\ Resume(t, AfterLoadModel(tasks[t], loc[t]))
       ELSE model' = model
            /\ Resume(t, Fail(tasks[t], loc[t], "Model loading failed: " \o o.msg))
    /\ UNCHANGED <<clients, temp_files, issued, now, intake, called,
                   answered, parsed>>

\* A waiter that polls until a model is there.
WaitModelUntilLoaded(t) ==
    /\ pc[t] = "wait_model"
    /\ model # "none"
    /\ Resume(t, AfterLoadModel(tasks[t], loc[t]))
    /\ UNCHANGED <<model, model_loading, clients, temp_files, issued, now, intake, called,
                   answered, parsed>>

\* load_model, lines 51-55: a caller that found a load in flight leaves the
\* polling loop once model_loading is false, and returns.
WaitModel(t) ==
    /\ pc[t] = "wait_model"
    /\ ~model_loading
    /\ Resume(t, AfterLoadModel(tasks[t], loc[t]))
    /\ UNCHANGED <<model, model_loading, clients, temp_files, issued, now, intake, called,
                   answered, parsed>>

ValidateDone(t, v) ==
    /\ pc[t] = "validate_youtube_url"
    /\ Resume(t, AfterValidate(tasks[t], loc[t], v))
    /\ UNCHANGED <<model, model_loading, clients, temp_files, issued, now, intake, called,
                   answered, parsed>>

MetadataDone(t, m) ==
    /\ pc[t] = "get_video_metadata"
    /\ Resume(t, AfterMetadata(tasks[t], loc[t], m))
    /\ UNCHANGED <<model, model_loading, clients, temp_files, issued, now, intake, called,
                   answered, parsed>>

ExtractDone(t, e) ==
    /\ pc[t] = "extract_subtitles"
    /\ Resume(t, AfterExtract(tasks[t], loc[t], e, clients, now))
    /\ UNCHANGED <<model, model_loading, clients, temp_files, issued, now, intake, called,
                   answered, parsed>>

\* download_audio leaves a file in the temp directory when it succeeds.
DownloadDone(t, d) ==
    /\ pc[t] = "download_audio"
    /\ Resume(t, AfterDownload(tasks[t], loc[t], d, t))
    /\ temp_files' = IF d.success THEN temp_files \cup {t} ELSE temp_files
    /\ UNCHANGED <<model, model_loading, clients, issued, now, intake, called,
                   answered, parsed>>

\* _transcribe_audio returned or raised; line 206 removes the downloaded file
\* only when it returned.
TranscribeDone(t, o) ==
    /\ pc[t] = "transcribe"
    /\ Resume(t, AfterTranscribe(tasks[t], loc[t], o, model, clients, now))
    /\ temp_files' = IF Transcribed(o, model) /\ loc[t].file_path # None
                     THEN temp_files \ {loc[t].file_path[1]} ELSE temp_files
    /\ UNCHANGED <<model, model_loading, clients, issued, now, intake, called,
                   answered, parsed>>

\* translate_text returned for segment i of _translate_segments.
TranslateSegmentDone(t, oa, gg) ==
    /\ pc[t] = "translate_segment"
    /\ LET lc == loc[t]
           result == lc.result[1]
           seg == result.segments[lc.i]
           tgt == tasks[t].target_language[1]
       IN  \E text \in {Strip(Get(seg, "text", <<>>))} :
           \E r \in {TranslateText(text, result.language, tgt, None, clients, oa, gg)} :
           \E acc \in {Append(lc.translated_segments,
                              TranslatedSegment(seg, r, result.language, tgt))} :
               Resume(t, [TranslateSegmentsFrom(tasks[t], lc, lc.i + 1, acc, now)
                            EXCEPT !.calls = <<Call(lc.i, text, r)>>])
    /\ UNCHANGED <<model, model_loading, clients, temp_files, issued, now, intake, called,
                   answered, parsed>>

\* translate_text returned for the whole text (_translate_text).
TranslateTextDone(t, oa, gg) ==
    /\ pc[t] = "translate_text"
    /\ LET result == loc[t].result[1]
           r == TranslateText(result.text, result.language,
                              tasks[t].target_language[1], None, clients, oa, gg)
       IN  Resume(t, [AfterTranslateText(tasks[t], loc[t], r, now)
                        EXCEPT !.calls = <<Call(0, result.text, r)>>])
    /\ UNCHANGED <<model, model_loading, clients, temp_files, issued, now, intake, called,
                   answered, parsed>>

\* Time passes.
TickHours == 13
Tick ==
    /\ now + TickHours <= MaxClock
    /\ now' = now + TickHours
    /\ UNCHANGED <<tasks, model, model_loading, clients, pc, loc, xlate,
                   temp_files, issued,
                   intake, called,
                   answered, parsed>>

\* A sweep that also takes the tasks that are exactly max_age_hours old.
ExpiredAtThreshold(tk, max_age_hours, clock) ==
    tk.completed_at # None /\ clock - tk.completed_at[1] >= max_age_hours

\* cleanup_old_tasks(max_age_hours)
Expired(tk, max_age_hours, clock) ==
    tk.completed_at # None /\ clock - tk.completed_at[1] > max_age_hours

CleanupOldTasks(max_age_hours) ==
    /\ tasks' = [t \in {u \in DOMAIN tasks : ~Expired(tasks[u], max_age_hours, now)}
                   |-> tasks[t]]
    /\ UNCHANGED <<model, model_loading, clients, pc, loc, xlate, temp_files,
                   issued, now,
                   intake, called,
                   answered, parsed>>

\* A lookup that hands back some task for an id that is not in the registry.
GetTaskAny(task_id) ==
    IF task_id \in DOMAIN tasks THEN Some(tasks[task_id])
    ELSE IF DOMAIN tasks # {} THEN Some(tasks[CHOOSE t \in DOMAIN tasks : TRUE])
    ELSE None

\* get_task: self.tasks.get(task_id).
GetTask(task_id) ==
    IF task_id \in DOMAIN tasks THEN Some(tasks[task_id]) ELSE None

\* What get_progress answers for a caller that is not signed in (the
\* ownership test of lines 166-170 passes): the 404 of lines 160-164 or the
\* ProgressResponse of lines 173-179.
ProgressResponse(task_id) ==
    LET task == GetTask(task_id)
    IN  IF task = None
        THEN [status_code |-> 404, detail |-> "Task not found"]
        ELSE [status_code |-> 200, task_id |-> task_id,
              status |-> task[1].status, progress |-> task[1].progress,
              estimated_time |-> None,
              error_message |-> task[1].error_message]

\* TranscriptSegment(**segment): the field constraints of schemas.py:39-45,
\* the confidence in hundredths.
ValidSegment(seg) == seg.confidence \in 0..100

\* What get_transcript answers for a caller that is not signed in: the 404 of
\* lines 189-193, the 400 of lines 202-206, an exception out of lines 215-222
\* (format_info is None) or out of the construction of the TranscriptResponse
\* (file_size is None, a segment is refused), which the framework turns into
\* a 500, or the TranscriptResponse of lines 225-234.
TranscriptResponse(task_id) ==
    LET task == GetTask(task_id)
    IN  IF task = None THEN [status_code |-> 404, detail |-> "Task not found"]
        ELSE IF task[1].status # COMPLETED
        THEN [status_code |-> 400,
              detail |-> "Transcript not ready. Current status: " \o task[1].status]
        ELSE LET tk == task[1]
                 metadata == OrEmpty(tk.metadata)
             IN  IF Get(metadata, "format_info", Some("{}")) = None
                 THEN [status_code |-> 500,
                       detail |-> "'NoneType' object has no attribute 'get'"]
                 ELSE IF Get(metadata, "file_size", Some(0)) = None
                         \/ \E k \in 1..Len(tk.segments) : ~ValidSegment(tk.segments[k])
                 THEN [status_code |-> 500, detail |-> "validation error"]
                 ELSE [status_code |-> 200, task_id |-> task_id,
                       text |-> IF tk.transcript = None THEN <<>> ELSE tk.transcript[1],
                       source_language |-> OrStr(tk.source_language, None, "unknown"),
                       target_language |-> OrStr(tk.target_language, tk.source_language,
                                                 "unknown"),
                       is_translated |-> tk.is_translated,
                       segments |-> tk.segments]

\* get_progress and get_transcript read the registry and write nothing.
GetProgress(task_id) == task_id \in TaskIds /\ UNCHANGED vars
GetTranscript(task_id) == task_id \in TaskIds /\ UNCHANGED vars

\* The pipeline of one task with every kind of request.
NextPipeline ==
    \/ \E st \in {FILE, RECORDING}, tl \in TargetLanguages :
          CreateTask(1, st, tl, None)
    \/ \E tl \in TargetLanguages, md \in SubtitlePreferences :
          CreateTask(1, YOUTUBE, tl, md)
    \/ \E rq \in YouTubeRequests, link \in SmallLinks :
          ProcessYoutube(1, rq, ValidateYoutubeUrl(link))
    \/ Begin(1)
    \/ \E o \in LoadOutcomes : LoadModelDone(1, o)
    \/ \E v \in ValidateOutcomes : ValidateDone(1, v)
    \/ \E m \in MetadataOutcomes : MetadataDone(1, m)
    \/ \E e \in ExtractOutcomes : ExtractDone(1, e)
    \/ \E d \in DownloadOutcomes : DownloadDone(1, d)
    \/ \E o \in TranscribeOutcomes : TranscribeDone(1, o)
    \/ \E oa \in OpenAIOutcomes, gg \in GoogleOutcomes : TranslateSegmentDone(1, oa, gg)
    \/ \E oa \in OpenAIOutcomes, gg \in GoogleOutcomes : TranslateTextDone(1, oa, gg)

InitPipeline == InitWith(ClientConfigs)

SpecPipeline == InitPipeline /\ [][NextPipeline]_vars

----------------------------------------------------------------------------
(* translate_text called on the translation service by itself, as           *)
(* demo_translation.py does.                                                *)

TranslateTexts == {<<>>, <<" ">>, <<"bonjour">>, <<" ", "bonjour">>}
TranslateLanguages == {"fr", "haw"}
ProviderArguments == {None, Some(OPENAI), Some(GOOGLE), Some(AUTO)}

\* One call of translate_text; oa and gg are what the providers' API calls do
\* when they are made.
TranslateTextCall(text, src, tgt, provider, oa, gg) ==
    /\ called' = Some([text |-> text, source_language |-> src,
                       target_language |-> tgt, provider |-> provider,
                       openai |-> oa, google |-> gg,
                       result |-> TranslateText(text, src, tgt, provider,
                                                clients, oa, gg)])
    /\ UNCHANGED <<tasks, model, model_loading, clients, pc, loc, xlate,
                   temp_files, issued, intake, answered, parsed, now>>

NextTranslate ==
    \E text \in TranslateTexts, src \in {"fr"}, tgt \in TranslateLanguages,
       provider \in ProviderArguments, oa \in OpenAIOutcomes, gg \in GoogleOutcomes :
        TranslateTextCall(text, src, tgt, provider, oa, gg)

SpecTranslate == InitWith(ClientConfigs) /\ [][NextTranslate]_vars

----------------------------------------------------------------------------
(* The intake endpoints by themselves: submissions are accepted or refused, *)
(* and no processing unit has taken its first step yet.                     *)

NextIntake ==
    \/ \E rq \in IntakeRequests, link \in Links :
          ProcessYoutube(MaxTasks, rq, ValidateYoutubeUrl(link))
    \/ \E file \in Uploads, tl \in IntakeLanguages : UploadFile(MaxTasks, file, tl)

SpecIntake == InitWith({[openai |-> TRUE, google |-> TRUE]}) /\ [][NextIntake]_vars

----------------------------------------------------------------------------
(* _process_subtitles called by itself on a caption document.               *)

MaxLines == 5

\* A written time in the short form mm:ss.mmm, and one with a comma.
ShortTs(s) == [hours |-> None, minutes |-> 0, seconds |-> s, millis |-> 0, mark |-> "."]
CommaTs(s) == [hours |-> Some(0), minutes |-> 0, seconds |-> s, millis |-> 0, mark |-> ","]

\* The lines a caption document is made of: the header, a blank line, text
\* lines, a cue identifier, timestamp lines, and `start --> end` lines whose
\* times are not written as timestamp_pattern wants them.
CaptionLines ==
    {Line(<<"WEBVTT">>), Line(<<>>), Line(<<"hello">>),
     Line(<<" ", "a", " ", "test", " ">>), Line(<<"2">>),
     Cue(0, 2), Cue(2, 4),
     [ts |-> TRUE, start |-> ShortTs(2), end |-> ShortTs(4)],
     [ts |-> TRUE, start |-> Ts(4), end |-> CommaTs(6)]}

\* The caption documents of at most n lines.
CaptionDocs(n) == SeqsUpTo(CaptionLines, n)

InitSubtitles ==
    /\ InitService({[openai |-> TRUE, google |-> TRUE]})
    /\ parsed \in {Some([doc |-> d, language |-> "en", result |-> None]) :
                       d \in CaptionDocs(MaxLines)}

\* _process_subtitles(subtitle_text, language) runs from its first line to
\* its return statement; it has no suspension point.
ProcessSubtitlesCall ==
    /\ parsed # None
    /\ parsed[1].result = None
    /\ parsed' = Some([parsed[1] EXCEPT !.result =
                         Some(ProcessSubtitles(parsed[1].doc, parsed[1].language))])
    /\ UNCHANGED <<tasks, model, model_loading, clients, pc, loc, xlate,
                   temp_files, issued, intake, called, answered, now>>

NextSubtitles == ProcessSubtitlesCall

SpecSubtitles == InitSubtitles /\ [][NextSubtitles]_vars

----------------------------------------------------------------------------
(* The service with several tasks in flight, on small data.                 *)

SmallMessages == {"connection reset"}
SmallRequests ==
    {[source_type |-> FILE, target_language |-> Some("haw"), metadata |-> None],
     [source_type |-> YOUTUBE, target_language |-> None, metadata |-> None],
     [source_type |-> YOUTUBE, target_language |-> Some("haw"),
      metadata |-> Some([use_subtitles |-> TRUE])]}
SmallLoad == {[ok |-> TRUE]} \cup {[ok |-> FALSE, msg |-> m] : m \in SmallMessages}
SmallTranscribe ==
    {[kind |-> "engine_error", msg |-> m] : m \in SmallMessages}
    \cup {[kind |-> "ok",
           raw |-> [text |-> <<" ", "bonjour">>, language |-> "fr",
                    segments |-> <<RawSegment(1, <<" ", "bonjour">>)>>]],
          [kind |-> "ok",
           raw |-> [text |-> <<" ", "bonjour">>, language |-> "fr", segments |-> <<>>]]}
SmallValidate == {[valid |-> TRUE]} \cup {[valid |-> FALSE, error |-> m] : m \in SmallMessages}
SmallMetadata ==
    {[success |-> FALSE, error |-> "unavailable"],
     [success |-> TRUE, subtitles |-> {"en"}, automatic_captions |-> {}]}
SmallExtract ==
    {[success |-> TRUE, subtitles |-> <<>>],
     [success |-> TRUE,
      subtitles |-> <<Line(<<"WEBVTT">>), Line(<<>>), Cue(0, 2), Line(<<"hello">>)>>]}
SmallDownload == {[success |-> TRUE]} \cup {[success |-> FALSE, error |-> m] : m \in SmallMessages}
SmallOpenAI ==
    {[ok |-> TRUE, text |-> <<"hello", " ">>, finish_reason |-> "stop"],
     [ok |-> FALSE, msg |-> "rate limit"]}
SmallGoogle == {[ok |-> TRUE, text |-> <<"hello">>]}
MaxAgeHours == {0, 24}

Init == InitWith({[openai |-> TRUE, google |-> TRUE]})

Next ==
    \/ \E rq \in SmallRequests :
          CreateTask(MaxTasks, rq.source_type, rq.target_language, rq.metadata)
    \/ \E t \in TaskIds : Begin(t)
    \/ \E t \in TaskIds, o \in SmallLoad : LoadModelDone(t, o)
    \/ \E t \in TaskIds : WaitModel(t)
    \/ \E t \in TaskIds, v \in SmallValidate : ValidateDone(t, v)
    \/ \E t \in TaskIds, m \in SmallMetadata : MetadataDone(t, m)
    \/ \E t \in TaskIds, e \in SmallExtract : ExtractDone(t, e)
    \/ \E t \in TaskIds, d \in SmallDownload : DownloadDone(t, d)
    \/ \E t \in TaskIds, o \in SmallTranscribe : TranscribeDone(t, o)
    \/ \E t \in TaskIds, oa \in SmallOpenAI, gg \in SmallGoogle :
          TranslateSegmentDone(t, oa, gg)
    \/ \E t \in TaskIds, oa \in SmallOpenAI, gg \in SmallGoogle :
          TranslateTextDone(t, oa, gg)
    \/ Tick
    \/ \E h \in MaxAgeHours : CleanupOldTasks(h)
    \/ \E t \in TaskIds : GetProgress(t)
    \/ \E t \in TaskIds : GetTranscript(t)

Spec == Init /\ [][Next]_vars

\* One step of the processing unit of task t.
ProcessStep(t) ==
    \/ Begin(t)
    \/ \E o \in SmallLoad : LoadModelDone(t, o)
    \/ WaitModel(t)
    \/ \E v \in SmallValidate : ValidateDone(t, v)
    \/ \E m \in SmallMetadata : MetadataDone(t, m)
    \/ \E e \in SmallExtract : ExtractDone(t, e)
    \/ \E d \in SmallDownload : DownloadDone(t, d)
    \/ \E o \in SmallTranscribe : TranscribeDone(t, o)
    \/ \E oa \in SmallOpenAI, gg \in SmallGoogle : TranslateSegmentDone(t, oa, gg)
    \/ \E oa \in SmallOpenAI, gg \in SmallGoogle : TranslateTextDone(t, oa, gg)

\* The event loop runs every unit that is ready, every awaited collaborator
\* call returns or raises, time passes and sweeps keep being run.
FairSpec ==
    /\ Spec
    /\ \A t \in TaskIds : WF_vars(ProcessStep(t))
    /\ WF_vars(Tick)
    /\ WF_vars(\E h \in MaxAgeHours : CleanupOldTasks(h))

----------------------------------------------------------------------------
(* Properties of the task lifecycle.                                        *)

\* C1: under any interleaving of processing steps, queries and sweeps, a
\* task's status changes only along Pending -> Processing -> Completed or
\* Pending -> Processing -> Failed; a terminal status never changes, a task
\* enters the registry Pending, and an id that left the registry never comes
\* back.
C1_StatusPath ==
    [][\A t \in TaskIds :
          /\ (t \in DOMAIN tasks /\ t \in DOMAIN tasks') =>
                \/ tasks'[t].status = tasks[t].status
                \/ <<tasks[t].status, tasks'[t].status>> \in
                      {<<PENDING, PROCESSING>>, <<PROCESSING, COMPLETED>>,
                       <<PROCESSING, FAILED>>}
          /\ (t \notin DOMAIN tasks /\ t \in DOMAIN tasks') =>
                pc[t] = "unborn" /\ tasks'[t].status = PENDING]_vars

\* A sweep removed one finished task while another one, failed, is still in
\* the registry.
C1_Witness ==
    \E t, u \in TaskIds :
        /\ t \notin DOMAIN tasks /\ pc[t] = "done"
        /\ u \in DOMAIN tasks /\ tasks[u].status = FAILED

\* C2 (as stated): a task that failed has progress 0, its processing unit has
\* ended, and its error message is set and not empty.
C2_FailedHasMessage ==
    \A t \in DOMAIN tasks :
        tasks[t].status = FAILED =>
            /\ tasks[t].progress = 0
            /\ pc[t] = "done"
            /\ tasks[t].error_message # None
            /\ tasks[t].error_message[1] # ""

\* C3: each value written to progress is at least the value written before
\* it, except for the 0 written by the step that sets the status to Failed,
\* which is the last write.
C3_ProgressMonotone ==
    \A t \in DOMAIN tasks :
        LET w == tasks[t].progress_writes
        IN  /\ w # <<>> => tasks[t].progress = w[Len(w)]
            /\ \A k \in 1..(Len(w) - 1) :
                  \/ w[k] <= w[k + 1]
                  \/ w[k + 1] = 0 /\ k + 1 = Len(w) /\ tasks[t].status = FAILED

\* A task went through the subtitle path and a translation to completion:
\* eight writes to progress.
C3_Witness ==
    \E t \in DOMAIN tasks :
        /\ tasks[t].status = COMPLETED
        /\ tasks[t].progress_writes = <<10, 20, 40, 70, 70, 75, 95, 100>>

\* C4: completed_at is unset while the task is Pending or Processing, so it
\* is set only on a Completed or Failed task, and once set it is never
\* written with another value.
C4_CompletedAt ==
    /\ [](\A t \in DOMAIN tasks :
             tasks[t].completed_at # None =>
                 tasks[t].status \in {COMPLETED, FAILED})
    /\ [][\A t \in DOMAIN tasks :
             (t \in DOMAIN tasks' /\ tasks[t].completed_at # None) =>
                 tasks'[t].completed_at = tasks[t].completed_at]_vars

\* A task completed, and the clock has moved on since, while another task is
\* still being processed.
C4_Witness ==
    \E t, u \in DOMAIN tasks :
        /\ tasks[t].status = COMPLETED
        /\ tasks[t].completed_at # None
        /\ now > tasks[t].completed_at[1]
        /\ tasks[u].status = PROCESSING

\* C5 (as stated): a task that is not Completed has no transcript text.
C5_NoTranscriptBeforeCompleted ==
    \A t \in DOMAIN tasks :
        tasks[t].status # COMPLETED =>
            tasks[t].transcript = None \/ tasks[t].transcript = Some(<<>>)

----------------------------------------------------------------------------
(* Properties of the translation stage.                                     *)

\* The need test of the claim, read off the task's fields once the raw
\* transcript is there.
NeedTest(tk) ==
    /\ tk.target_language # None
    /\ tk.target_language[1] # ""
    /\ tk.target_language[1] # "auto"
    /\ tk.source_language # None
    /\ tk.target_language[1] # tk.source_language[1]

\* C6 (as stated): a completed task had a translate_text call made for it if
\* and only if the need test holds.
C6_TranslatorIffNeeded ==
    \A t \in DOMAIN tasks :
        tasks[t].status = COMPLETED => ((xlate[t] # <<>>) <=> NeedTest(tasks[t]))

\* C6 (amended): translate_text is called only if the need test holds; when
\* it holds, it is called once for every segment whose text is not blank, or
\* once for the whole text when there are no segments; when it does not
\* hold, no call is made and the completed task is not marked translated.
C6_TranslatorOnlyIfNeeded ==
    \A t \in DOMAIN tasks :
        /\ xlate[t] # <<>> => NeedTest(tasks[t])
        /\ tasks[t].status = COMPLETED =>
              IF NeedTest(tasks[t])
              THEN LET segs == loc[t].result[1].segments
                   IN  IF segs = <<>>
                       THEN Len(xlate[t]) = 1 /\ xlate[t][1].index = 0
                       ELSE \A j \in 1..Len(segs) :
                               (Strip(segs[j].text) # <<>>) <=>
                                   (\E k \in 1..Len(xlate[t]) : xlate[t][k].index = j)
              ELSE xlate[t] = <<>> /\ ~tasks[t].is_translated

\* The need test holds for a completed task whose segments are all blank: no
\* call was made.
C6_Witness ==
    \E t \in DOMAIN tasks :
        /\ tasks[t].status = COMPLETED
        /\ NeedTest(tasks[t])
        /\ loc[t].result[1].segments # <<>>
        /\ xlate[t] = <<>>

\* C7 (as stated): a completed task all of whose translate_text calls
\* reported an error is not marked translated.
C7_AllErrorsNotTranslated ==
    \A t \in DOMAIN tasks :
        (/\ tasks[t].status = COMPLETED
         /\ xlate[t] # <<>>
         /\ \A k \in 1..Len(xlate[t]) : TruthyStr(xlate[t][k].result.error))
        => ~tasks[t].is_translated

\* C8 (as stated): when the whole text was handed to translate_text and the
\* call reported an error, the completed task's transcript is the original
\* text and the task is not marked translated.
C8_WholeTextErrorNotTranslated ==
    \A t \in DOMAIN tasks :
        (/\ tasks[t].status = COMPLETED
         /\ Len(xlate[t]) = 1
         /\ xlate[t][1].index = 0
         /\ TruthyStr(xlate[t][1].result.error))
        => /\ tasks[t].transcript = Some(xlate[t][1].text)
           /\ ~tasks[t].is_translated

\* C9: a segment for which translate_text reported an error keeps its text,
\* has original_text set to the text handed over and has no translation_info;
\* the task does not fail, and when its unit has ended the task is Completed
\* with one output segment per input segment, every non-blank one having
\* been handed to translate_text.
C9_SegmentErrorKeepsText ==
    \A t \in DOMAIN tasks :
        \A k \in 1..Len(xlate[t]) :
            LET c == xlate[t][k]
            IN  (c.index > 0 /\ TruthyStr(c.result.error)) =>
                    LET segs == loc[t].result[1].segments
                        seg == segs[c.index]
                        out == loc[t].translated_segments[c.index]
                    IN  /\ out.text = seg.text
                        /\ "original_text" \in DOMAIN out
                        /\ out.original_text = c.text
                        /\ out.original_text # <<>>
                        /\ "translation_info" \notin DOMAIN out
                        /\ tasks[t].status # FAILED
                        /\ pc[t] = "done" =>
                              /\ tasks[t].status = COMPLETED
                              /\ tasks[t].segments = loc[t].translated_segments
                              /\ Len(tasks[t].segments) = Len(segs)
                              /\ \A j \in 1..Len(segs) :
                                    Strip(segs[j].text) # <<>> =>
                                        \E m \in 1..Len(xlate[t]) :
                                            xlate[t][m].index = j

\* The first of two segments failed to translate, the second was translated,
\* and the task completed.
C9_Witness ==
    \E t \in DOMAIN tasks :
        /\ tasks[t].status = COMPLETED
        /\ Len(xlate[t]) = 2
        /\ xlate[t][1].index = 1 /\ TruthyStr(xlate[t][1].result.error)
        /\ xlate[t][2].index = 2 /\ xlate[t][2].result.error = None
        /\ "translation_info" \in DOMAIN tasks[t].segments[2]

----------------------------------------------------------------------------
(* Properties of the acquisition of a YouTube source.                       *)

\* C10 (as stated): a task whose subtitle extraction was attempted and
\* failed or came back empty does not fail.
C10_ExtractionFailureFallsBack ==
    \A t \in DOMAIN tasks :
        LET sr == loc[t].subtitle_result
        IN  (sr # None /\ ~(sr[1].success /\ Get(sr[1], "subtitles", <<>>) # <<>>))
            => tasks[t].status # FAILED

\* C11 (as stated): a task made by the intake from a request with
\* use_subtitles and prefer_manual_subtitles, for a video that has manual
\* subtitles in the subtitle language, completes with subtitle_source
\* "manual" in its metadata.
C11_IntakeManualSubtitles ==
    \A t \in DOMAIN tasks :
        LET rq == intake[t]
        IN  (/\ rq # None
             /\ rq[1].use_subtitles
             /\ rq[1].prefer_manual_subtitles
             /\ OrStr(rq[1].subtitle_language, rq[1].target_language, "en")
                   \in rq[1].url.subtitles
             /\ tasks[t].status = COMPLETED)
            => /\ tasks[t].metadata # None
               /\ Get(tasks[t].metadata[1], "subtitle_source", "") = "manual"

\* C12 (as stated): the metadata of a completed YouTube task says whether the
\* transcript came from subtitles, and from which kind when it did.  A missing
\* from_subtitles entry is read as false.
C12_MetadataRecordsPath ==
    \A t \in DOMAIN tasks :
        (tasks[t].status = COMPLETED /\ tasks[t].source_type = YOUTUBE) =>
            LET md == OrEmpty(tasks[t].metadata)
                from_audio == loc[t].file_path # None
            IN  /\ Get(md, "from_subtitles", FALSE) = ~from_audio
                /\ ~from_audio => Get(md, "subtitle_source", "") = loc[t].branch

\* C13 (as stated): when a task is Completed or Failed, the audio file
\* downloaded for it is no longer in the temp directory.
C13_TempFileDeleted ==
    \A t \in DOMAIN tasks :
        tasks[t].status \in {COMPLETED, FAILED} => t \notin temp_files

\* The processing units alone: tasks are created and processed, no time
\* passes and nothing is swept.
NextProcessing ==
    \/ \E r \in SmallRequests :
           CreateTask(MaxTasks, r.source_type, r.target_language, r.metadata)
    \/ \E t \in TaskIds : ProcessStep(t)

SpecProcessing ==
    /\ Init
    /\ [][NextProcessing]_vars
    /\ \A t \in TaskIds : WF_vars(ProcessStep(t))

\* C14 (as stated, for the tasks that finish at hour 0): a task that is
\* Completed or Failed is eventually removed from the registry, sweeps being
\* run again and again while time passes.
C14_TerminalEventuallySwept ==
    \A t \in TaskIds :
        (t \in DOMAIN tasks /\ tasks[t].status \in {COMPLETED, FAILED} /\ now = 0)
            ~> (t \notin DOMAIN tasks)

\* C15: a task enters the registry with its unit scheduled; a unit is
\* scheduled only by the creation of its task; a unit that started never
\* goes back to its start and one that ended never runs again; a task leaves
\* Pending only by the first step of its unit, and a Failed task stays Failed.
C15_ProcessedOnce ==
    [][\A t \in TaskIds :
          /\ (t \notin DOMAIN tasks /\ t \in DOMAIN tasks') =>
                pc[t] = "unborn" /\ pc'[t] = "scheduled"
          /\ (pc[t] # "scheduled" /\ pc'[t] = "scheduled") =>
                pc[t] = "unborn" /\ t \in DOMAIN tasks'
          /\ pc[t] = "done" => pc'[t] = "done"
          /\ pc[t] # "unborn" => pc'[t] # "unborn"
          /\ (t \in DOMAIN tasks /\ t \in DOMAIN tasks'
                /\ tasks[t].status = PENDING /\ tasks'[t].status # PENDING) =>
                pc[t] = "scheduled" /\ pc'[t] # "scheduled"
          /\ (t \in DOMAIN tasks /\ t \in DOMAIN tasks'
                /\ tasks[t].status = FAILED) =>
                tasks'[t].status = FAILED /\ pc[t] = "done"]_vars

\* Every id was issued, one task failed, and every unit has ended.
C15_Witness ==
    /\ issued = MaxTasks
    /\ \A t \in TaskIds : pc[t] = "done"
    /\ \E t \in DOMAIN tasks : tasks[t].status = FAILED

\* C16: under fair scheduling every task in the registry is eventually
\* Completed or Failed.
C16_EveryTaskEnds ==
    \A t \in TaskIds :
        (t \in DOMAIN tasks) ~>
            (t \in DOMAIN tasks => tasks[t].status \in {COMPLETED, FAILED})

\* Every task has ended, one of them after it waited for a load that another
\* task started and that failed.
C16_Witness ==
    /\ issued = MaxTasks
    /\ \A t \in TaskIds : t \in DOMAIN tasks /\ tasks[t].status \in {COMPLETED, FAILED}
    /\ \E t \in TaskIds :
          tasks[t].error_message = Some("'NoneType' object has no attribute 'transcribe'")

\* C17 (as stated): every segment stored on a task has a confidence within
\* [0, 1], that is within 0..100 hundredths.
C17_ConfidenceInRange ==
    \A t \in DOMAIN tasks :
        \A k \in 1..Len(tasks[t].segments) :
            tasks[t].segments[k].confidence \in 0..100

\* The last call was made with no provider argument, on a text that needs
\* translating, with both clients initialised.
DefaultCall ==
    /\ called # None
    /\ called[1].provider = None
    /\ Strip(called[1].text) # <<>>
    /\ called[1].source_language # called[1].target_language
    /\ clients.openai /\ clients.google

\* C18 (as stated): in the default configuration with both providers
\* initialised, when the OpenAI call fails and the Google call succeeds,
\* translate_text returns Google's result, with no error.
C18_DefaultFallsBackToGoogle ==
    (DefaultCall /\ ~called[1].openai.ok /\ called[1].google.ok) =>
        /\ called[1].result.provider = "google"
        /\ called[1].result.translated_text = called[1].google.text
        /\ called[1].result.error = None

\* The providers that the last call could reach all fail, or there is none.
NoProviderWorks ==
    /\ clients.openai => ~called[1].openai.ok
    /\ clients.google => ~called[1].google.ok

\* C19 (as stated): translate_text returns a result whatever it is given; when
\* no provider is available or every provider fails, the result carries the
\* input text, confidence 0 and a populated error; any other result either has
\* no error or is such an error result.
C19_NeverRaisesErrorPopulated ==
    called # None =>
        LET c == called[1]
            r == c.result
            attempted == Strip(c.text) # <<>> /\ c.source_language # c.target_language
            is_error == /\ r.translated_text = c.text
                        /\ r.confidence = 0
                        /\ TruthyStr(r.error)
        IN  /\ {"translated_text", "provider", "confidence", "error"} \subseteq DOMAIN r
            /\ (attempted /\ NoProviderWorks) => is_error
            /\ r.error = None \/ is_error

C21_TranscriptOrNotReady ==
    \A t \in DOMAIN tasks :
        LET answer == TranscriptResponse(t)
        IN  IF tasks[t].status # COMPLETED THEN answer.status_code = 400
            ELSE /\ answer.status_code = 200
                 /\ Some(answer.text) = tasks[t].transcript
                 /\ answer.segments = tasks[t].segments
                 /\ Some(answer.source_language) = tasks[t].source_language
                 /\ tasks[t].target_language # None =>
                        Some(answer.target_language) = tasks[t].target_language
                 /\ answer.is_translated = tasks[t].is_translated

\* C22: an upload that is refused (no content type, unsupported format, too
\* large) and a YouTube submission whose URL does not validate (not a YouTube
\* URL, video over the duration limit, not public, info not fetched) are
\* answered with an error at once, and the registry, the issued ids and the
\* processing units are as before.
C22_RejectedLeavesRegistry ==
    [][/\ \A rq \in IntakeRequests, link \in Links :
            (ProcessYoutube(MaxTasks, rq, ValidateYoutubeUrl(link))
                /\ ~ValidateYoutubeUrl(link).valid) =>
                /\ answered'[1].status_code = 400
                /\ UNCHANGED <<tasks, pc, issued>>
       /\ \A file \in Uploads, tl \in IntakeLanguages :
            (UploadFile(MaxTasks, file, tl)
                /\ (\/ ~TruthyStr(file.content_type)
                    \/ file.extension \notin SupportedFormats
                    \/ file.size > MAX_FILE_SIZE)) =>
                /\ answered'[1].status_code \in {400, 413}
                /\ UNCHANGED <<tasks, pc, issued>>]_vars

\* A video over the duration limit was refused and nothing was ever created.
C22_Witness ==
    /\ answered # None
    /\ answered[1].status_code = 400
    /\ answered[1].message =
          "YouTube URL validation failed: Video duration exceeds maximum allowed"
    /\ tasks = <<>> /\ issued = 0
    /\ \A t \in TaskIds : pc[t] = "unborn"

\* C23 (as stated): the number of tasks in Processing never exceeds
\* MAX_CONCURRENT_TASKS.
C23_ProcessingWithinMaximum ==
    Cardinality({t \in DOMAIN tasks : tasks[t].status = PROCESSING})
        <= MAX_CONCURRENT_TASKS

\* The values _process_task assigns to task.progress.
Milestones == {0, 10, 20, 40, 70, 75, 95, 100}

\* C24: the progress of a task, now and at every earlier assignment, is one of
\* the milestones; it is 0 while the task is Pending and when it is Failed,
\* 100 when it is Completed, and 100 only when it is Completed.
C24_ProgressMilestones ==
    \A t \in DOMAIN tasks :
        LET tk == tasks[t]
        IN  /\ tk.progress \in Milestones
            /\ \A k \in 1..Len(tk.progress_writes) : tk.progress_writes[k] \in Milestones
            /\ tk.status = PENDING => tk.progress = 0
            /\ tk.status = FAILED => tk.progress = 0
            /\ tk.status = COMPLETED <=> tk.progress = 100

\* A task went through every milestone above 0 and is Completed.
C24_Witness ==
    \E t \in DOMAIN tasks :
        /\ tasks[t].status = COMPLETED
        /\ tasks[t].progress_writes = <<10, 20, 40, 70, 75, 95, 100>>

\* The callers whose load is in flight, given the positions of the units.
Loading(positions) == {t \in TaskIds : positions[t] = "load_model"}

\* C25: at most one load is in flight, and model_loading says whether one is;
\* a caller starts a load only when there is no model and no load in flight;
\* a caller starts to wait only while a load is in flight; once the model is
\* loaded it stays loaded and no load is started.
C25_OneLoadInFlight ==
    [][/\ Cardinality(Loading(pc')) <= 1
       /\ model_loading' = (Loading(pc') # {})
       /\ model = "loaded" => (model' = "loaded" /\ Loading(pc') = {})
       /\ \A t \in TaskIds :
            /\ (pc[t] # "load_model" /\ pc'[t] = "load_model") =>
                  (model = "none" /\ ~model_loading /\ Loading(pc) = {})
            /\ (pc[t] # "wait_model" /\ pc'[t] = "wait_model") =>
                  (model = "none" /\ model_loading /\ Loading(pc) # {})]_vars

\* One caller's load is in flight and another caller waits for it.
C25_Witness ==
    \E t, u \in TaskIds : pc[t] = "load_model" /\ pc[u] = "wait_model"

\* C26 (as stated): a task whose load_model call returned, that is a task
\* that was given the engine-ready progress 20, or whose unit stands at the
\* transcription call, finds the model loaded.
C26_ReturnedMeansLoaded ==
    \A t \in DOMAIN tasks :
        (\/ \E k \in 1..Len(tasks[t].progress_writes) : tasks[t].progress_writes[k] = 20
         \/ pc[t] = "transcribe")
            => model = "loaded"

\* The stages of _process_task in the order of its text.
StageRank(position) ==
    CASE position \in {"unborn", "scheduled"} -> 0
      [] position \in {"load_model", "wait_model"} -> 1
      [] position = "validate_youtube_url" -> 2
      [] position = "get_video_metadata" -> 3
      [] position = "extract_subtitles" -> 4
      [] position = "download_audio" -> 5
      [] position = "transcribe" -> 6
      [] position \in {"translate_segment", "translate_text"} -> 7
      [] position = "done" -> 8

\* C27: a unit never goes back to an earlier stage; the transcription of a
\* YouTube task starts with the downloaded file at hand; translation starts
\* with the result and the source language at hand; a task is Completed only
\* when its unit has ended with a result, a transcript and, for a YouTube
\* task, what was acquired (the file or the subtitles).
C27_StagesInOrder ==
    [][\A t \in TaskIds :
          /\ StageRank(pc'[t]) >= StageRank(pc[t])
          /\ t \in DOMAIN tasks' =>
                LET tk == tasks'[t]
                    lc == loc'[t]
                    acquired ==
                        \/ lc.file_path # None
                        \/ lc.subtitle_result # None /\ lc.subtitle_result[1].success
                IN  /\ (pc'[t] = "transcribe" /\ tk.source_type = YOUTUBE) =>
                          lc.file_path # None
                    /\ pc'[t] \in {"translate_segment", "translate_text"} =>
                          (/\ lc.result # None /\ tk.source_language # None
                           /\ tk.source_type = YOUTUBE => acquired)
                    /\ tk.status = COMPLETED =>
                          (/\ pc'[t] = "done" /\ lc.result # None
                           /\ tk.transcript # None /\ tk.source_language # None
                           /\ tk.source_type = YOUTUBE => acquired)]_vars

\* A YouTube task went through download, transcription and translation and is
\* Completed.
C27_Witness ==
    \E t \in DOMAIN tasks :
        /\ tasks[t].status = COMPLETED /\ tasks[t].source_type = YOUTUBE
        /\ loc[t].file_path # None /\ tasks[t].is_translated
        /\ xlate[t] # <<>>

\* C28: when the metadata of the video came back, with L the subtitle
\* language the acquirer settled on, the manual subtitles are extracted if and
\* only if there are manual subtitles in L and (manual ones are preferred or
\* there are no automatic captions in L); otherwise the automatic captions
\* are, if and only if there are some in L; otherwise the audio is downloaded.
\* An extraction that succeeds with a non-empty document gives a result whose
\* subtitle source is the branch taken.
C28_SubtitlePolicy ==
    [][/\ \A m \in MetadataOutcomes :
            (MetadataDone(1, m) /\ m.success) =>
                LET L == loc'[1].target_lang
                    has_manual == L \in m.subtitles
                    has_auto == L \in m.automatic_captions
                    prefer_manual == Get(OrEmpty(tasks[1].metadata),
                                         "prefer_manual_subtitles", TRUE)
                    manual == has_manual /\ (prefer_manual \/ ~has_auto)
                    extracting == pc'[1] = "extract_subtitles"
                IN  /\ (extracting /\ loc'[1].branch = "manual") <=> manual
                    /\ (extracting /\ loc'[1].branch = "automatic") <=>
                          (~manual /\ has_auto)
                    /\ pc'[1] = "download_audio" <=> (~manual /\ ~has_auto)
       /\ \A e \in ExtractOutcomes :
            (ExtractDone(1, e) /\ e.success /\ e.subtitles # <<>>) =>
                /\ loc[1].branch \in {"manual", "automatic"}
                /\ loc'[1].result # None
                /\ loc'[1].result[1].metadata.from_subtitles
                /\ loc'[1].result[1].metadata.subtitle_source = loc[1].branch]_vars

\* Manual subtitles were there but not preferred, automatic captions were
\* there too, and the automatic ones were extracted and parsed.
C28_Witness ==
    /\ 1 \in DOMAIN tasks
    /\ loc[1].branch = "automatic"
    /\ loc[1].result # None
    /\ loc[1].result[1].metadata.subtitle_source = "automatic"
    /\ loc[1].result[1].segments # <<>>

\* C29 (as stated; what a target language of "auto" leads to is left open):
\* once the metadata of the video came back, the subtitle language the
\* acquirer settled on is the subtitle language asked for, else the target
\* language of the task, else "en".
C29_SubtitleLanguageChoice ==
    \A t \in DOMAIN tasks :
        (/\ pc[t] \in {"extract_subtitles", "download_audio"}
         /\ loc[t].target_lang # ""
         /\ tasks[t].target_language # Some("auto")) =>
            loc[t].target_lang =
                OrStr(Get(OrEmpty(tasks[t].metadata), "subtitle_language", None),
                      tasks[t].target_language, "en")

\* C30 (as stated; a URL that does not validate is left aside): a YouTube
\* task that asked for subtitles and Failed during acquisition, that is after
\* the engine-ready checkpoint and before the acquisition checkpoint 40,
\* Failed because the audio download failed; in particular it did not fail
\* at the metadata fetch.
C30_OnlyDownloadFailsAcquisition ==
    \A t \in DOMAIN tasks :
        LET tk == tasks[t]
            wrote(v) == \E k \in 1..Len(tk.progress_writes) : tk.progress_writes[k] = v
        IN  (/\ tk.source_type = YOUTUBE /\ tk.status = FAILED
             /\ Get(OrEmpty(tk.metadata), "use_subtitles", FALSE)
             /\ wrote(20) /\ ~wrote(40)
             /\ tk.error_message \notin
                   {Some("YouTube processing failed: Invalid YouTube URL: " \o m) :
                       m \in Messages}) =>
                tk.error_message \in
                   {Some("YouTube processing failed: Failed to download audio: " \o m) :
                       m \in Messages}

\* C31: a YouTube task whose caller did not ask for subtitles goes from the
\* validation of its URL straight to the audio download: its unit is never
\* suspended in the metadata fetch or in the subtitle extraction, and a
\* download that succeeds hands over a file with from_subtitles false and no
\* subtitle result.
C31_NoPreferenceStraightToAudio ==
    [][\A t \in DOMAIN tasks \cap DOMAIN tasks' :
          LET asked == Get(OrEmpty(tasks[t].metadata), "use_subtitles", FALSE)
          IN  /\ (pc[t] = "validate_youtube_url" /\ ~asked /\ pc'[t] # pc[t]) =>
                    \/ pc'[t] = "download_audio"
                    \/ pc'[t] = "done" /\ tasks'[t].status = FAILED
              /\ (pc'[t] \in {"get_video_metadata", "extract_subtitles"}
                  /\ pc'[t] # pc[t]) => asked
              /\ (pc[t] = "download_audio" /\ ~asked /\ pc'[t] # pc[t]
                  /\ tasks'[t].status # FAILED) =>
                    /\ pc'[t] = "transcribe"
                    /\ loc'[t].file_path # None
                    /\ loc'[t].subtitle_result = None
                    /\ loc'[t].branch = ""
                    /\ tasks'[t].metadata # None
                    /\ tasks'[t].metadata[1].from_subtitles = FALSE]_vars

C31_Witness ==
    /\ 1 \in DOMAIN tasks
    /\ tasks[1].source_type = YOUTUBE
    /\ intake[1] # None
    /\ ~intake[1][1].use_subtitles
    /\ pc[1] = "transcribe"
    /\ loc[1].file_path # None
    /\ loc[1].subtitle_result = None
    /\ tasks[1].metadata = Some(AudioMetadata)

----------------------------------------------------------------------------
(* Properties of the per-segment translation.                               *)

\* C32: while _translate_segments runs and once it is over, its output so
\* far has one segment for each input segment handled, in the input's order
\* and with the input's start, end and confidence; the finished output is
\* what the task stores and is as long as the input; a segment for which
\* translate_text returned without an error has the returned text as its
\* text, the text handed to translate_text (the input segment's text) as its
\* original_text, and a translation_info with the provider, the two
\* languages and the confidence of the returned result.
C32_SegmentsKeepTimingAndStructure ==
    \A t \in DOMAIN tasks :
        (loc[t].result # None /\ loc[t].translated_segments # <<>>) =>
            LET segs == loc[t].result[1].segments
                out == loc[t].translated_segments
            IN  /\ Len(out) <= Len(segs)
                /\ \A k \in 1..Len(out) :
                      /\ out[k].start = segs[k].start
                      /\ out[k].end = segs[k].end
                      /\ out[k].confidence = segs[k].confidence
                /\ pc[t] = "done" =>
                      /\ Len(out) = Len(segs)
                      /\ tasks[t].segments = out
                /\ \A m \in 1..Len(xlate[t]) :
                      LET c == xlate[t][m]
                      IN  (c.index > 0 /\ c.result.error = None) =>
                              /\ c.index <= Len(out)
                              /\ c.text = segs[c.index].text
                              /\ out[c.index].text = c.result.translated_text
                              /\ out[c.index].original_text = segs[c.index].text
                              /\ out[c.index].translation_info =
                                    [service |-> c.result.provider,
                                     source_language |-> loc[t].result[1].language,
                                     target_language |-> tasks[t].target_language[1],
                                     confidence |-> c.result.confidence]

\* Two segments went through _translate_segments, the first translated by a
\* provider, and the task completed with both.
C32_Witness ==
    \E t \in DOMAIN tasks :
        /\ tasks[t].status = COMPLETED
        /\ Len(loc[t].result[1].segments) = 2
        /\ Len(tasks[t].segments) = 2
        /\ \E m \in 1..Len(xlate[t]) :
              /\ xlate[t][m].index = 1
              /\ xlate[t][m].result.error = None
              /\ xlate[t][m].result.provider \in {"openai", "google"}
        /\ tasks[t].segments[1].text # loc[t].result[1].segments[1].text
        /\ tasks[t].segments[2].start = 2000

\* C33: a segment whose text is empty or blank comes out of
\* _translate_segments as it went in, with no original_text and no
\* translation_info, and translate_text is not called for it.
C33_BlankSegmentPassedThrough ==
    \A t \in DOMAIN tasks :
        (loc[t].result # None /\ loc[t].translated_segments # <<>>) =>
            LET segs == loc[t].result[1].segments
                out == loc[t].translated_segments
            IN  \A k \in 1..Len(out) :
                    Strip(Get(segs[k], "text", <<>>)) = <<>> =>
                        /\ out[k] = segs[k]
                        /\ "original_text" \notin DOMAIN out[k]
                        /\ "translation_info" \notin DOMAIN out[k]
                        /\ \A m \in 1..Len(xlate[t]) : xlate[t][m].index # k
                        /\ pc[t] = "done" => tasks[t].segments[k] = segs[k]

\* A blank segment followed by one that was sent to the translator, in a
\* task that completed.
C33_Witness ==
    \E t \in DOMAIN tasks :
        /\ tasks[t].status = COMPLETED
        /\ tasks[t].is_translated
        /\ Len(tasks[t].segments) = 2
        /\ tasks[t].segments[1].text = <<>>
        /\ Len(xlate[t]) = 1
        /\ xlate[t][1].index = 2

\* The texts of the segments whose text is not blank, in order.
NonBlankTexts(segs) ==
    LET kept == SelectSeq([k \in 1..Len(segs) |-> k],
                          LAMBDA k : Strip(segs[k].text) # <<>>)
    IN  [j \in 1..Len(kept) |-> segs[kept[j]].text]

\* C34 (as stated): after the per-segment translation the task's transcript
\* is the single-space join of the texts of all its stored segments, in
\* order.
C34_TranscriptIsJoinOfSegments ==
    \A t \in DOMAIN tasks :
        (/\ tasks[t].status = COMPLETED /\ tasks[t].is_translated
         /\ loc[t].result[1].segments # <<>>) =>
            tasks[t].transcript = Some(JoinSpace(SegmentTexts(tasks[t].segments)))

\* C34 (amended): after the per-segment translation the task's transcript is
\* the single-space join of the texts of its stored segments whose text is
\* not blank, in order; the stored segments are the output of the
\* translation.
C34_TranscriptIsJoinOfNonBlankSegments ==
    \A t \in DOMAIN tasks :
        (/\ tasks[t].status = COMPLETED /\ tasks[t].is_translated
         /\ loc[t].result[1].segments # <<>>) =>
            /\ tasks[t].transcript = Some(JoinSpace(NonBlankTexts(tasks[t].segments)))
            /\ tasks[t].segments = loc[t].translated_segments

\* A blank segment and a translated one are stored, and the transcript is the
\* translated text alone.
C34_Witness ==
    \E t \in DOMAIN tasks :
        /\ tasks[t].status = COMPLETED /\ tasks[t].is_translated
        /\ Len(tasks[t].segments) = 2
        /\ tasks[t].segments[1].text = <<>>
        /\ "translation_info" \in DOMAIN tasks[t].segments[2]
        /\ tasks[t].transcript = Some(tasks[t].segments[2].text)

----------------------------------------------------------------------------
(* Properties of the subtitle parsing.                                      *)

\* What a line of a caption document is, by its place and its characters.
Header(doc, k) == k = 1 /\ ~doc[k].ts /\ doc[k].text = <<"WEBVTT">>
Blank(line) == ~line.ts /\ Strip(line.text) = <<>>
TextLine(doc, k) == ~doc[k].ts /\ ~Blank(doc[k]) /\ ~Header(doc, k)
Malformed(line) == line.ts /\ ~TimestampMatch(line)

\* The cue at hand, closed, when it has a text.
Closed(st) ==
    IF st.current # None /\ st.current[1].text # <<>>
    THEN Append(st.segments, st.current[1]) ELSE st.segments

\* The reading of a caption document that the parsing rule describes: a
\* `start --> end` line opens a cue, a time that does not parse counting as
\* 0; the text lines that follow are joined into the cue's text with single
\* spaces until a blank line or the next `start --> end` line; a cue without
\* text is dropped; a retained cue has confidence 0.95.
RECURSIVE CuesFrom(_, _, _)
CuesFrom(doc, k, st) ==
    IF k > Len(doc) THEN Closed(st)
    ELSE CuesFrom(doc, k + 1,
            IF Header(doc, k) THEN st
            ELSE IF Blank(doc[k]) THEN [st EXCEPT !.open = FALSE]
            ELSE IF doc[k].ts
            THEN [segments |-> Closed(st), open |-> TRUE,
                  current |-> Some([start |-> ParseTimestamp(doc[k].start),
                                    end |-> ParseTimestamp(doc[k].end),
                                    text |-> <<>>, confidence |-> 95])]
            ELSE IF st.current # None /\ st.open
            THEN [st EXCEPT !.current = Some([st.current[1] EXCEPT !.text =
                     IF @ # <<>> THEN @ \o <<" ">> \o Strip(doc[k].text)
                     ELSE Strip(doc[k].text)])]
            ELSE st)

Cues(doc) == CuesFrom(doc, 1, [segments |-> <<>>, current |-> None, open |-> FALSE])

\* C35 (as stated): for a document whose `start --> end` lines are all well
\* written and in which WEBVTT is the first line or nowhere, a cue's text is
\* made of the text lines between its timestamp line and the next blank line
\* or timestamp line; a line that follows a blank line is in no cue's text.
C35_TextStopsAtBlankLine ==
    (parsed # None /\ parsed[1].result # None) =>
        LET doc == parsed[1].doc
        IN  (\A k \in 1..Len(doc) :
                /\ ~Malformed(doc[k])
                /\ (~doc[k].ts /\ doc[k].text = <<"WEBVTT">>) => k = 1) =>
                parsed[1].result[1].segments = Cues(doc)

\* A document made of caption blocks: after the header, every timestamp line
\* comes first or after a blank line, and every text line comes right after
\* a timestamp line or another text line of the same cue.
Blocks(doc) ==
    \A k \in 1..Len(doc) :
        /\ doc[k].ts => (k = 1 \/ Blank(doc[k - 1]) \/ Header(doc, k - 1))
        /\ TextLine(doc, k) =>
              (k > 1 /\ ~Blank(doc[k - 1]) /\ ~Header(doc, k - 1))

\* C36 (as stated): a document of caption blocks whose timestamp lines are
\* well written parses to one segment for each cue that has a text line, in
\* the order of the cues, with the cue's times, its text lines joined with
\* single spaces and confidence 0.95; cues without a text line give no
\* segment, and the transcript is the single-space join of the segments'
\* texts.
C36_CaptionBlockRoundTrip ==
    (parsed # None /\ parsed[1].result # None) =>
        LET doc == parsed[1].doc
            result == parsed[1].result[1]
            withText == {k \in 1..Len(doc) :
                            doc[k].ts /\ k < Len(doc) /\ TextLine(doc, k + 1)}
        IN  (Blocks(doc) /\ \A k \in 1..Len(doc) : ~Malformed(doc[k])) =>
                /\ Len(result.segments) = Cardinality(withText)
                /\ result.segments = Cues(doc)
                /\ \A j \in 1..Len(result.segments) :
                      result.segments[j].confidence = 95
                /\ result.text = JoinSpace(SegmentTexts(result.segments))

\* C37 (as stated): in a document of caption blocks in which WEBVTT is the
\* first line or nowhere, a `start --> end` line with a time that is not
\* written as hh:mm:ss.mmm opens a cue like any other, the time that does
\* not parse being 0; the line is in no cue's text and the parse returns the
\* cues of the whole document.
C37_MalformedTimeIsZero ==
    (parsed # None /\ parsed[1].result # None) =>
        LET doc == parsed[1].doc
            result == parsed[1].result[1]
        IN  (/\ Blocks(doc)
             /\ \E k \in 1..Len(doc) : Malformed(doc[k])
             /\ \A k \in 1..Len(doc) :
                   (~doc[k].ts /\ doc[k].text = <<"WEBVTT">>) => k = 1) =>
                /\ result.segments = Cues(doc)
                /\ \A j \in 1..Len(result.segments) :
                      \A i \in 1..Len(result.segments[j].text) :
                          result.segments[j].text[i] # "start --> end"

----------------------------------------------------------------------------
(* Properties of the registry as a whole.                                   *)

\* C38: in every step, a task whose record changes is a task whose own
\* processing unit took the step (its failure handler included): the unit was
\* scheduled or suspended, and no other task's record, position, locals or
\* call log changes in that step; a progress or transcript query changes no
\* record at all.
C38_TasksDoNotInterfere ==
    [][/\ \A t \in DOMAIN tasks \cap DOMAIN tasks' :
             tasks'[t] # tasks[t] =>
                /\ pc[t] \notin {"unborn", "done"}
                /\ pc'[t] # pc[t] \/ loc'[t] # loc[t]
                /\ \A u \in TaskIds \ {t} :
                      /\ pc'[u] = pc[u] /\ loc'[u] = loc[u] /\ xlate'[u] = xlate[u]
                      /\ u \in DOMAIN tasks => (u \in DOMAIN tasks' /\ tasks'[u] = tasks[u])
      /\ \A t \in TaskIds : (GetProgress(t) \/ GetTranscript(t)) => tasks' = tasks]_vars

\* Two tasks were in flight together: one has failed, the other is between
\* two checkpoints.
C38_Witness ==
    /\ DOMAIN tasks = {1, 2}
    /\ tasks[1].status = FAILED
    /\ tasks[1].error_message # None
    /\ tasks[2].status = PROCESSING
    /\ tasks[2].progress = 40
    /\ tasks[2].error_message = None
    /\ tasks[1].created_at = tasks[2].created_at

----------------------------------------------------------------------------
(* Properties of the transcription call.                                    *)

\* C40: whenever the engine was called for a task (a file, a recording or a
\* downloaded audio), the options it was called with have the task's target
\* language as their language if that is a 2-character code, and no language
\* otherwise; and once the engine returned, the task's source language is
\* the language of the engine's result, which is the one the need test for
\* the translation compares with the target language.
C40_LanguageHintAndSourceLanguage ==
    \A t \in DOMAIN tasks :
        loc[t].transcribe_options # None =>
            LET tl == tasks[t].target_language
                options == loc[t].transcribe_options[1]
                twoCharacters == tl # None /\ Len(tl[1]) = 2
            IN  /\ twoCharacters =>
                      ("language" \in DOMAIN options /\ options.language = tl[1])
                /\ ~twoCharacters => "language" \notin DOMAIN options
                /\ loc[t].subtitle_result = None
                /\ loc[t].result # None =>
                      LET language == loc[t].result[1].language
                          needed == /\ tl # None /\ tl[1] # ""
                                    /\ tl[1] # language /\ tl[1] # "auto"
                      IN  /\ tasks[t].source_language = Some(language)
                          /\ pc[t] \in {"translate_segment", "translate_text"}
                                => needed
                          /\ xlate[t] # <<>> => needed
                          /\ tasks[t].status = COMPLETED
                                => (tasks[t].is_translated <=> needed)

\* The engine was called with the language 'en' for the downloaded audio of a
\* task that asks for 'en', and the task completed with the language the
\* engine reported.
C40_Witness ==
    \E t \in DOMAIN tasks :
        /\ tasks[t].source_type = YOUTUBE
        /\ tasks[t].status = COMPLETED
        /\ loc[t].file_path # None
        /\ loc[t].transcribe_options # None
        /\ "language" \in DOMAIN loc[t].transcribe_options[1]
        /\ loc[t].transcribe_options[1].language = "en"
        /\ tasks[t].source_language = Some("en")

====
